---- MODULE Spec2Model ----
(***************************************************************************)
(* A model of the planning engine of sitelens                              *)
(* (backend/app/services/planning_service.py, backend/app/api/property.py, *)
(* backend/app/schemas/planning.py).                                       *)
(*                                                                         *)
(* Conventions.                                                            *)
(*  - A Python str is a sequence of one-character strings, so that split,  *)
(*    strip, upper, replace, "in" and float() are computed character by    *)
(*    character.                                                           *)
(*  - An Optional[T] is None (the empty sequence) or Some(v) (<<v>>).      *)
(*  - A Python float is a fixed-point number with one decimal, stored      *)
(*    times 10: 9.0 m is 90, an FSR of 0.5 is 5, 650 sqm is 6500.          *)
(***************************************************************************)
EXTENDS Integers, Sequences, FiniteSets, TLC

VARIABLES
    pc,      \* where the request in progress stands: the query it awaits
    req,     \* the request in progress
    locals,  \* the service's local variables for it: the layers queried so
             \* far, zoning, lga_name, controls, hazards, overlays
    resp,    \* the response
    zc_in,   \* the zone code given to the classifier
    zc_out,  \* the category it returned
    pot_in,  \* the arguments given to the development potential engine
    pot_out, \* the DevelopmentPotential it returned
    stats_in,  \* today's date and the sales given to the statistics
    stats_out, \* the SalesStatistics returned
    cmp_in,    \* today's date, a comparable sales request and the sales generated for it
    cmp_out,   \* the ComparableSalesResponse returned
    gw_now,    \* datetime.now(), in minutes
    gw_cache,  \* DataGovAuConnector._cache: cache_key -> (data, timestamp)
    gw_calls,  \* the external calls in progress, by cache_key
    gw_last    \* what the last step of a gateway request did

mainVars == <<pc, req, locals, resp>>

zoneVars == <<zc_in, zc_out>>

engineVars == <<pot_in, pot_out>>

salesVars == <<stats_in, stats_out, cmp_in, cmp_out>>

gatewayVars == <<gw_now, gw_cache, gw_calls, gw_last>>

vars == <<mainVars, zoneVars, engineVars, salesVars, gatewayVars>>

-----------------------------------------------------------------------------
(* Optional values *)

None == <<>>

Some(v) == <<v>>

IsSome(o) == Len(o) > 0

Val(o) == o[1]

-----------------------------------------------------------------------------
(* Strings *)

LowerLetters ==
    <<"a","b","c","d","e","f","g","h","i","j","k","l","m",
      "n","o","p","q","r","s","t","u","v","w","x","y","z">>

UpperLetters ==
    <<"A","B","C","D","E","F","G","H","I","J","K","L","M",
      "N","O","P","Q","R","S","T","U","V","W","X","Y","Z">>

Whitespace == {" ", "\t", "\n", "\r"}

\* str.upper(), one character
UpperChar(c) ==
    IF \E i \in 1..26 : LowerLetters[i] = c
    THEN UpperLetters[CHOOSE i \in 1..26 : LowerLetters[i] = c]
    ELSE c

\* str.lower(), one character
LowerChar(c) ==
    IF \E i \in 1..26 : UpperLetters[i] = c
    THEN LowerLetters[CHOOSE i \in 1..26 : UpperLetters[i] = c]
    ELSE c

\* s.upper()
StrUpper(s) == [i \in 1..Len(s) |-> UpperChar(s[i])]

\* s.lower()
StrLower(s) == [i \in 1..Len(s) |-> LowerChar(s[i])]

\* s.split(ch)[0]: the text before the first ch, all of s when there is none
SplitHead(s, ch) ==
    IF \E i \in 1..Len(s) : s[i] = ch
    THEN SubSeq(s, 1, (CHOOSE i \in 1..Len(s) :
                          s[i] = ch /\ \A j \in 1..(i-1) : s[j] # ch) - 1)
    ELSE s

RECURSIVE LStrip(_)
\* s.lstrip()
LStrip(s) ==
    IF s # <<>> /\ Head(s) \in Whitespace THEN LStrip(Tail(s)) ELSE s

RECURSIVE RStrip(_)
\* s.rstrip()
RStrip(s) ==
    IF s # <<>> /\ s[Len(s)] \in Whitespace
    THEN RStrip(SubSeq(s, 1, Len(s) - 1))
    ELSE s

\* s.strip()
Strip(s) == RStrip(LStrip(s))

\* pat is found in s at position i
MatchesAt(s, pat, i) ==
    /\ i + Len(pat) - 1 <= Len(s)
    /\ \A k \in 1..Len(pat) : s[i + k - 1] = pat[k]

\* pat in s
Contains(pat, s) == \E i \in 1..(Len(s) + 1) : MatchesAt(s, pat, i)

RECURSIVE Replace(_, _, _)
\* s.replace(pat, rep) for a non-empty pat: every occurrence, left to right
Replace(s, pat, rep) ==
    IF s = <<>> THEN <<>>
    ELSE IF MatchesAt(s, pat, 1)
         THEN rep \o Replace(SubSeq(s, Len(pat) + 1, Len(s)), pat, rep)
         ELSE <<Head(s)>> \o Replace(Tail(s), pat, rep)

-----------------------------------------------------------------------------
(* Zone category classifier *)

UnknownCode == <<"U","n","k","n","o","w","n">>

ZoneCategory ==
    {"residential", "commercial", "industrial", "rural", "environmental",
     "recreation", "special_purpose", "mixed_use", "infrastructure", "waterway"}

ZONE_CATEGORY_MAP ==
       (<<"R", "1">> :> "residential")
    @@ (<<"R", "2">> :> "residential")
    @@ (<<"R", "3">> :> "residential")
    @@ (<<"R", "4">> :> "residential")
    @@ (<<"R", "5">> :> "rural")
    @@ (<<"B", "1">> :> "commercial")
    @@ (<<"B", "2">> :> "commercial")
    @@ (<<"B", "3">> :> "commercial")
    @@ (<<"B", "4">> :> "mixed_use")
    @@ (<<"B", "5">> :> "commercial")
    @@ (<<"B", "6">> :> "commercial")
    @@ (<<"B", "7">> :> "commercial")
    @@ (<<"I", "N", "1">> :> "industrial")
    @@ (<<"I", "N", "2">> :> "industrial")
    @@ (<<"I", "N", "3">> :> "industrial")
    @@ (<<"I", "N", "4">> :> "industrial")
    @@ (<<"S", "P", "1">> :> "special_purpose")
    @@ (<<"S", "P", "2">> :> "infrastructure")
    @@ (<<"S", "P", "3">> :> "special_purpose")
    @@ (<<"S", "P", "5">> :> "commercial")
    @@ (<<"M", "U", "1">> :> "mixed_use")
    @@ (<<"R", "E", "1">> :> "recreation")
    @@ (<<"R", "E", "2">> :> "recreation")
    @@ (<<"E", "1">> :> "environmental")
    @@ (<<"E", "2">> :> "environmental")
    @@ (<<"E", "3">> :> "environmental")
    @@ (<<"E", "4">> :> "environmental")
    @@ (<<"R", "U", "1">> :> "rural")
    @@ (<<"R", "U", "2">> :> "rural")
    @@ (<<"R", "U", "3">> :> "rural")
    @@ (<<"R", "U", "4">> :> "rural")
    @@ (<<"R", "U", "5">> :> "rural")
    @@ (<<"R", "U", "6">> :> "rural")
    @@ (<<"W", "1">> :> "waterway")
    @@ (<<"W", "2">> :> "waterway")
    @@ (<<"W", "3">> :> "waterway")
    @@ (<<"L", "D", "R">> :> "residential")
    @@ (<<"L", "M", "R">> :> "residential")
    @@ (<<"M", "D", "R">> :> "residential")
    @@ (<<"H", "D", "R">> :> "residential")
    @@ (<<"C", "R">> :> "residential")
    @@ (<<"N", "C">> :> "commercial")
    @@ (<<"D", "C">> :> "commercial")
    @@ (<<"M", "C">> :> "commercial")
    @@ (<<"P", "C">> :> "commercial")
    @@ (<<"L", "I">> :> "industrial")
    @@ (<<"M", "I">> :> "industrial")
    @@ (<<"H", "I">> :> "industrial")
    @@ (<<"S", "R">> :> "rural")
    @@ (<<"R", "R">> :> "rural")
    @@ (<<"R", "L">> :> "rural")
    @@ (<<"O", "S">> :> "recreation")
    @@ (<<"S", "P">> :> "special_purpose")
    @@ (<<"C", "F">> :> "special_purpose")
    @@ (<<"E", "C">> :> "environmental")
    @@ (<<"E", "M">> :> "environmental")

\* The zone classifier with the upper-casing left out.
GetZoneCategoryNoUpper(zone_code) ==
    LET base_code == Strip(SplitHead(zone_code, "("))
    IN  IF base_code \in DOMAIN ZONE_CATEGORY_MAP
        THEN ZONE_CATEGORY_MAP[base_code]
        ELSE "special_purpose"

\* PlanningService._get_zone_category
GetZoneCategory(zone_code) ==
    LET base_code == StrUpper(Strip(SplitHead(zone_code, "(")))
    IN  IF base_code \in DOMAIN ZONE_CATEGORY_MAP
        THEN ZONE_CATEGORY_MAP[base_code]
        ELSE "special_purpose"

-----------------------------------------------------------------------------
(* Numbers *)

Digits == <<"0","1","2","3","4","5","6","7","8","9">>

IsDigit(c) == \E i \in 1..10 : Digits[i] = c

DigitVal(c) == (CHOOSE i \in 1..10 : Digits[i] = c) - 1

RECURSIVE DigitsValue(_)
\* the value of a run of decimal digits
DigitsValue(s) ==
    IF s = <<>> THEN 0
    ELSE DigitsValue(SubSeq(s, 1, Len(s) - 1)) * 10 + DigitVal(s[Len(s)])

\* float(s) for the decimal spellings "d+", "d+." and "d+.d" (surrounding
\* whitespace allowed): Some(value times 10); None is ValueError, raised for
\* every other string of the alphabets used here.
ParseFloat(str) ==
    LET s     == Strip(str)
        whole == SplitHead(s, ".")
        rest  == SubSeq(s, Len(whole) + 1, Len(s))
    IN  IF whole = <<>> \/ \E i \in 1..Len(whole) : ~IsDigit(whole[i])
        THEN None
        ELSE IF rest = <<>> \/ rest = <<".">>
             THEN Some(DigitsValue(whole) * 10)
             ELSE IF Len(rest) = 2 /\ IsDigit(rest[2])
                  THEN Some(DigitsValue(whole) * 10 + DigitVal(rest[2]))
                  ELSE None

\* a * b for two floats
Mul(a, b) == (a * b) \div 10

\* Heights (times 10, up to 100 m) whose binary64 quotient by 3.2 lies just
\* below a whole number that the exact quotient reaches: 9.6 / 3.2 is
\* 2.9999999999999996 in Python.
QuotientBelowWhole == {96, 192, 224, 384, 448, 608, 736, 768, 896, 928}

\* The storey count rounded to the nearest whole instead of cut off.
StoreysOfRounded(h) == (h + 16) \div 32

\* int(h / 3.2)
StoreysOf(h) ==
    IF h \in QuotientBelowWhole THEN (h \div 32) - 1 ELSE h \div 32

\* bool(x) for an Optional[float]
TruthyNum(o) == IsSome(o) /\ Val(o) # 0

\* bool(x) for an Optional[str]
TruthyStr(o) == IsSome(o) /\ Val(o) # <<>>

\* o or d, for an Optional[float] o and a float d
OrNum(o, d) == IF TruthyNum(o) THEN Val(o) ELSE d

-----------------------------------------------------------------------------
(* Development controls *)

\* DevelopmentControl(...)
DevelopmentControl(ctype, cname, minv, maxv, cunit, cnotes) ==
    [control_type |-> ctype, name |-> cname, min_value |-> minv,
     max_value |-> maxv, unit |-> cunit, notes |-> cnotes]

\* DevelopmentControlsSet()
EmptyControls ==
    [height_limit |-> None, fsr |-> None, lot_size |-> None,
     setbacks |-> <<>>, site_coverage |-> None,
     estimated_gfa |-> None, estimated_storeys |-> None]

\* PlanningService._get_default_setbacks
GetDefaultSetbacks(zone_code) ==
    LET category == GetZoneCategory(zone_code)
    IN  IF category = "residential"
        THEN <<DevelopmentControl("setback_front", "Front Setback", Some(60), None, "m", None),
               DevelopmentControl("setback_side", "Side Setback", Some(9), None, "m", None),
               DevelopmentControl("setback_rear", "Rear Setback", Some(60), None, "m", None)>>
        ELSE IF category = "commercial"
             THEN <<DevelopmentControl("setback_front", "Front Setback", Some(0), None, "m", None)>>
             ELSE <<>>

\* height_defaults in _get_default_controls
HeightDefaults ==
    ("residential" :> 90) @@ ("commercial" :> 150) @@ ("industrial" :> 150)
        @@ ("mixed_use" :> 240) @@ ("rural" :> 90)

\* fsr_defaults in _get_default_controls
FsrDefaults ==
    ("residential" :> 5) @@ ("commercial" :> 15) @@ ("industrial" :> 10)
        @@ ("mixed_use" :> 20) @@ ("rural" :> 3)

DefaultNote == "Default value - check local planning controls"

\* PlanningService._get_default_controls
GetDefaultControls(zone_code) ==
    LET category == GetZoneCategory(zone_code)
    IN  [EmptyControls EXCEPT
            !.height_limit =
                IF category \in DOMAIN HeightDefaults
                THEN Some(DevelopmentControl("height", "Maximum Building Height (Default)",
                                             None, Some(HeightDefaults[category]), "m",
                                             Some(DefaultNote)))
                ELSE None,
            !.fsr =
                IF category \in DOMAIN FsrDefaults
                THEN Some(DevelopmentControl("fsr", "Floor Space Ratio (Default)",
                                             None, Some(FsrDefaults[category]), "ratio",
                                             Some(DefaultNote)))
                ELSE None,
            !.setbacks = GetDefaultSetbacks(zone_code)]

\* PlanningService._get_qld_controls
GetQldControls(zone_code) == GetDefaultControls(zone_code)

\* the attribute of the last feature
AttrOfLast(features, key) ==
    IF key \in DOMAIN features[Len(features)] THEN Some(features[Len(features)][key]) ELSE None

\* features[0].get("attributes", {}).get(key): None when the key is missing
Attr(features, key) ==
    IF key \in DOMAIN features[1] THEN Some(features[1][key]) ELSE None

\* features[0].get("attributes", {}).get(key, default)
AttrOr(features, key, default) ==
    IF key \in DOMAIN features[1] THEN features[1][key] ELSE default

\* a or b, for two Optional[str]
OrStr(a, b) == IF TruthyStr(a) THEN a ELSE b

\* _get_nsw_controls, lines 442-456: the height control of the height layer's answer
NswHeightControl(height_features) ==
    IF height_features = <<>> THEN None
    ELSE LET height_val == OrStr(Attr(height_features, "MAX_B_H_M"),
                                 Attr(height_features, "MAX_B_H"))
         IN  IF ~TruthyStr(height_val) THEN None
             ELSE LET height_m == ParseFloat(Replace(Val(height_val), <<"m">>, <<>>))
                  IN  IF height_m = None THEN None
                      ELSE Some(DevelopmentControl("height", "Maximum Building Height",
                                                   None, height_m, "m", None))

\* An FSR that is no number given the default ratio instead of being dropped.
NswFsrControlDefaulted(fsr_features) ==
    Some(DevelopmentControl("fsr", "Floor Space Ratio", None, Some(5), "ratio", None))

\* _get_nsw_controls, lines 466-481: the FSR control of the FSR layer's answer
NswFsrControl(fsr_features) ==
    IF fsr_features = <<>> THEN None
    ELSE LET fsr_val == Attr(fsr_features, "FSR")
         IN  IF ~TruthyStr(fsr_val) THEN None
             ELSE LET fsr_ratio == ParseFloat(Replace(Val(fsr_val), <<":","1">>, <<>>))
                  IN  IF fsr_ratio = None THEN None
                      ELSE Some(DevelopmentControl("fsr", "Floor Space Ratio",
                                                   None, fsr_ratio, "ratio", None))

\* _get_nsw_controls, lines 491-504: the lot size control of the lot size layer's answer
NswLotSizeControl(lot_features) ==
    IF lot_features = <<>> THEN None
    ELSE LET lot_val == Attr(lot_features, "LOT_SIZE")
         IN  IF ~TruthyStr(lot_val) THEN None
             ELSE LET lot_size == ParseFloat(Replace(Replace(Val(lot_val), <<"s","q","m">>, <<>>),
                                                     <<",">>, <<>>))
                  IN  IF lot_size = None THEN None
                      ELSE Some(DevelopmentControl("lot_size", "Minimum Lot Size",
                                                   lot_size, None, "sqm", None))

\* get_development_controls, lines 418-426: the derived fields
WithEstimates(controls, lot_area_sqm) ==
    LET gfa ==
            IF TruthyNum(lot_area_sqm) /\ IsSome(controls.fsr)
            THEN Some(Mul(Val(lot_area_sqm), OrNum(Val(controls.fsr).max_value, 5)))
            ELSE controls.estimated_gfa
        storeys ==
            IF IsSome(controls.height_limit) /\ TruthyNum(Val(controls.height_limit).max_value)
            THEN Some(StoreysOf(Val(Val(controls.height_limit).max_value)))
            ELSE controls.estimated_storeys
    IN  [controls EXCEPT !.estimated_gfa = gfa, !.estimated_storeys = storeys]

-----------------------------------------------------------------------------
(* Development potential *)

\* ZoningInfo(...); description, prohibited_uses and objectives are free text
\* that nothing reads and are left out
ZoningInfo(code, zname, category, uses, lga, src) ==
    [zone_code |-> code, zone_name |-> zname, zone_category |-> category,
     permitted_uses |-> uses, lga_name |-> lga, source |-> src]

\* BuildingEnvelope(); buildable_area_sqm, a square-root estimate that no
\* other field depends on, is left out
EmptyEnvelope ==
    [max_height_m |-> None, max_storeys |-> None, max_gfa_sqm |-> None,
     max_site_coverage_percent |-> None, setback_front_m |-> None,
     setback_side_m |-> None, setback_rear_m |-> None]

\* SubdivisionPotential(can_subdivide=False)
NoSubdivision ==
    [can_subdivide |-> FALSE, min_lot_size |-> None, potential_lots |-> 0,
     lot_configurations |-> <<>>, constraints |-> <<>>, required_approvals |-> <<>>]

\* the loop of lines 899-905: the last setback of a type sets the field
SetbackOf(setbacks, ctype) ==
    LET idx == {i \in 1..Len(setbacks) : setbacks[i].control_type = ctype}
    IN  IF idx = {} THEN None
        ELSE setbacks[CHOOSE i \in idx : \A j \in idx : j <= i].min_value

\* PlanningService._calculate_building_envelope
CalculateBuildingEnvelope(controls, lot_area_sqm) ==
    LET height == IF IsSome(controls.height_limit)
                  THEN Val(controls.height_limit).max_value
                  ELSE None
    IN  [EmptyEnvelope EXCEPT
            !.max_height_m = height,
            !.max_storeys = IF TruthyNum(height) THEN Some(StoreysOf(Val(height))) ELSE None,
            !.max_gfa_sqm =
                IF IsSome(controls.fsr) /\ TruthyNum(lot_area_sqm)
                THEN Some(Mul(Val(lot_area_sqm), OrNum(Val(controls.fsr).max_value, 0)))
                ELSE None,
            !.max_site_coverage_percent =
                IF IsSome(controls.site_coverage)
                THEN Val(controls.site_coverage).max_value
                ELSE None,
            !.setback_front_m = SetbackOf(controls.setbacks, "setback_front"),
            !.setback_side_m = SetbackOf(controls.setbacks, "setback_side"),
            !.setback_rear_m = SetbackOf(controls.setbacks, "setback_rear")]

\* lines 938-950: the minimum lot size of the controls, or the zone's default
MinLotSize(zoning, controls) ==
    IF IsSome(controls.lot_size) /\ TruthyNum(Val(controls.lot_size).min_value)
    THEN Val(Val(controls.lot_size).min_value)
    ELSE IF zoning.zone_category = "rural" THEN 40000
    ELSE IF zoning.zone_category = "residential"
         THEN IF Contains(<<"R","2">>, zoning.zone_code)
                   \/ Contains(<<"L","D","R">>, zoning.zone_code)
              THEN 4500
              ELSE IF Contains(<<"R","3">>, zoning.zone_code)
                        \/ Contains(<<"L","M","R">>, zoning.zone_code)
                   THEN 3000
                   ELSE IF Contains(<<"R","4">>, zoning.zone_code)
                             \/ Contains(<<"M","D","R">>, zoning.zone_code)
                        THEN 2000
                        ELSE 4500
    ELSE 4500

\* lines 954-971 with the threshold of line 957 as a parameter
SubdivisionFrom(lot_area, min_lot, threshold) ==
    LET potential_lots == lot_area \div min_lot
    IN  IF potential_lots >= threshold
        THEN [NoSubdivision EXCEPT
                !.min_lot_size = Some(min_lot),
                !.can_subdivide = TRUE,
                !.potential_lots = potential_lots,
                !.lot_configurations =
                    IF potential_lots >= 3
                    THEN <<[lots |-> 2, avg_size |-> <<lot_area, 2>>],
                           [lots |-> 3, avg_size |-> <<lot_area, 3>>]>>
                    ELSE <<[lots |-> 2, avg_size |-> <<lot_area, 2>>]>>,
                !.required_approvals = <<"Development Application for Subdivision">>]
        ELSE [NoSubdivision EXCEPT !.min_lot_size = Some(min_lot)]

\* The subdivision calculation with the test of line 957 off by one.
CalculateSubdivisionPotentialFromOne(zoning, controls, lot_area_sqm) ==
    IF ~TruthyNum(lot_area_sqm) THEN NoSubdivision
    ELSE SubdivisionFrom(Val(lot_area_sqm), MinLotSize(zoning, controls), 1)

\* PlanningService._calculate_subdivision_potential; avg_size is the
\* fraction <<lot_area, lots>>
CalculateSubdivisionPotential(zoning, controls, lot_area_sqm) ==
    IF ~TruthyNum(lot_area_sqm) THEN NoSubdivision
    ELSE SubdivisionFrom(Val(lot_area_sqm), MinLotSize(zoning, controls), 2)

\* DevelopmentScenario(...)
DevelopmentScenario(sname, stype, dwellings, gfa, rating, pathway) ==
    [scenario_name |-> sname, scenario_type |-> stype,
     estimated_dwellings |-> dwellings, estimated_gfa |-> gfa,
     feasibility_rating |-> rating, estimated_approval_pathway |-> pathway]

\* min(a, b)
Min(a, b) == IF b < a THEN b ELSE a

\* The scenarios of a residential zone with the Dual Occupancy threshold
\* exclusive: a lot of exactly 600 sqm misses it.
ResidentialScenariosDualAbove(zoning, envelope, lot_area) ==
    LET gfa == envelope.max_gfa_sqm
        single ==
            <<DevelopmentScenario("Single Dwelling House", "residential", Some(1),
                                  Some(Min(3000, OrNum(gfa, 3000))), "high", "complying")>>
        dual ==
            IF lot_area > 6000
            THEN <<DevelopmentScenario("Dual Occupancy", "residential", Some(2),
                                       Some(Min(4000, OrNum(gfa, 4000))),
                                       IF lot_area >= 8000 THEN "high" ELSE "medium", "DA")>>
            ELSE <<>>
        town ==
            IF /\ \/ Contains(<<"R","3">>, zoning.zone_code)
                  \/ Contains(<<"L","M","R">>, zoning.zone_code)
                  \/ Contains(<<"M","D","R">>, zoning.zone_code)
               /\ lot_area >= 10000
            THEN <<DevelopmentScenario("Townhouse Development", "residential",
                                       Some(Min(lot_area \div 2000, 8)), gfa, "medium", "DA")>>
            ELSE <<>>
        flats ==
            IF /\ \/ Contains(<<"R","4">>, zoning.zone_code)
                  \/ Contains(<<"H","D","R">>, zoning.zone_code)
               /\ TruthyNum(envelope.max_storeys)
               /\ Val(envelope.max_storeys) >= 4
            THEN <<DevelopmentScenario("Residential Flat Building", "residential",
                                       Some(OrNum(gfa, 0) \div 800), gfa, "medium", "DA")>>
            ELSE <<>>
    IN  single \o dual \o town \o flats

\* lines 988-1066: the scenarios of a residential zone
ResidentialScenarios(zoning, envelope, lot_area) ==
    LET gfa == envelope.max_gfa_sqm
        single ==
            <<DevelopmentScenario("Single Dwelling House", "residential", Some(1),
                                  Some(Min(3000, OrNum(gfa, 3000))), "high", "complying")>>
        dual ==
            IF lot_area >= 6000
            THEN <<DevelopmentScenario("Dual Occupancy", "residential", Some(2),
                                       Some(Min(4000, OrNum(gfa, 4000))),
                                       IF lot_area >= 8000 THEN "high" ELSE "medium", "DA")>>
            ELSE <<>>
        town ==
            IF /\ \/ Contains(<<"R","3">>, zoning.zone_code)
                  \/ Contains(<<"L","M","R">>, zoning.zone_code)
                  \/ Contains(<<"M","D","R">>, zoning.zone_code)
               /\ lot_area >= 10000
            THEN <<DevelopmentScenario("Townhouse Development", "residential",
                                       Some(Min(lot_area \div 2000, 8)), gfa, "medium", "DA")>>
            ELSE <<>>
        flats ==
            IF /\ \/ Contains(<<"R","4">>, zoning.zone_code)
                  \/ Contains(<<"H","D","R">>, zoning.zone_code)
               /\ TruthyNum(envelope.max_storeys)
               /\ Val(envelope.max_storeys) >= 4
            THEN <<DevelopmentScenario("Residential Flat Building", "residential",
                                       Some(OrNum(gfa, 0) \div 800), gfa, "medium", "DA")>>
            ELSE <<>>
    IN  single \o dual \o town \o flats

\* The scenario rules without the early return of lines 983-984; an absent
\* lot area then counts as 0 in the thresholds.
GenerateDevelopmentScenariosAlways(zoning, controls, envelope, lot_area_sqm) ==
    LET category == zoning.zone_category
        gfa      == envelope.max_gfa_sqm
    IN  IF category = "residential"
        THEN ResidentialScenarios(zoning, envelope, OrNum(lot_area_sqm, 0))
        ELSE IF category = "commercial"
        THEN <<DevelopmentScenario("Commercial Development", "commercial", None, gfa,
                                   "medium", "DA")>>
        ELSE IF category = "mixed_use"
        THEN <<DevelopmentScenario("Mixed Use Development", "mixed",
                                   Some((OrNum(gfa, 0) * 7) \div 8000), gfa, "medium", "DA")>>
        ELSE <<>>

\* PlanningService._generate_development_scenarios
GenerateDevelopmentScenarios(zoning, controls, envelope, lot_area_sqm) ==
    LET category == zoning.zone_category
        gfa      == envelope.max_gfa_sqm
    IN  IF ~TruthyNum(lot_area_sqm) THEN <<>>
        ELSE IF category = "residential"
        THEN ResidentialScenarios(zoning, envelope, Val(lot_area_sqm))
        ELSE IF category = "commercial"
        THEN <<DevelopmentScenario("Commercial Development", "commercial", None, gfa,
                                   "medium", "DA")>>
        ELSE IF category = "mixed_use"
        THEN <<DevelopmentScenario("Mixed Use Development", "mixed",
                                   Some((OrNum(gfa, 0) * 7) \div 8000), gfa, "medium", "DA")>>
        ELSE <<>>

\* "dual" in str(zoning.permitted_uses).lower()
MentionsDual(uses) ==
    \E i \in 1..Len(uses) : uses[i] \in {"Dual occupancy", "Dual occupancies"}

\* PlanningService._identify_opportunities
IdentifyOpportunities(zoning, controls, scenarios) ==
    (IF \E i \in 1..Len(scenarios) :
            TruthyNum(scenarios[i].estimated_dwellings)
                /\ Val(scenarios[i].estimated_dwellings) > 1
     THEN <<"Multi-dwelling development potential">> ELSE <<>>)
    \o (IF /\ IsSome(controls.fsr)
           /\ TruthyNum(Val(controls.fsr).max_value)
           /\ Val(Val(controls.fsr).max_value) >= 15
        THEN <<"High FSR allows for significant development">> ELSE <<>>)
    \o (IF /\ IsSome(controls.height_limit)
           /\ TruthyNum(Val(controls.height_limit).max_value)
           /\ Val(Val(controls.height_limit).max_value) >= 120
        THEN <<"Height controls allow multi-storey development">> ELSE <<>>)
    \o (IF MentionsDual(zoning.permitted_uses)
        THEN <<"Dual occupancy is permitted">> ELSE <<>>)

RECURSIVE HazardConstraints(_)
\* the loop of lines 1143-1147
HazardConstraints(hazards) ==
    IF hazards = <<>> THEN <<>>
    ELSE (IF Head(hazards).hazard_type = "flood"
          THEN <<"Flood planning controls apply">>
          ELSE IF Head(hazards).hazard_type = "bushfire"
               THEN <<"Bushfire protection requirements apply">>
               ELSE <<>>)
         \o HazardConstraints(Tail(hazards))

\* PlanningService._identify_constraints
IdentifyConstraints(overlays, zoning) ==
    (IF overlays.has_critical_hazards
     THEN <<"Critical hazard overlays may limit development">> ELSE <<>>)
    \o (IF overlays.has_heritage_constraints
        THEN <<"Heritage constraints may require additional approvals">> ELSE <<>>)
    \o HazardConstraints(overlays.hazards)

\* The recommendation taken from the head of the list whatever its rating.
RecommendedHead(scenarios) ==
    IF scenarios = <<>> THEN None ELSE Some(scenarios[1].scenario_name)

\* lines 861-867: the first scenario rated "high"
Recommended(scenarios) ==
    LET high == {i \in 1..Len(scenarios) : scenarios[i].feasibility_rating = "high"}
    IN  IF high = {} THEN None
        ELSE Some(scenarios[CHOOSE i \in high : \A j \in high : i <= j].scenario_name)

\* PlanningService.get_development_potential
GetDevelopmentPotential(zoning, controls, overlays, lot_area_sqm) ==
    LET envelope  == CalculateBuildingEnvelope(controls, lot_area_sqm)
        scenarios == GenerateDevelopmentScenarios(zoning, controls, envelope, lot_area_sqm)
    IN  [building_envelope |-> envelope,
         subdivision |-> CalculateSubdivisionPotential(zoning, controls, lot_area_sqm),
         scenarios |-> scenarios,
         recommended_scenario |-> Recommended(scenarios),
         key_opportunities |-> IdentifyOpportunities(zoning, controls, scenarios),
         key_constraints |-> IdentifyConstraints(overlays, zoning)]

\* lines 1201-1205: the potential when scenarios are not asked for
NoPotential ==
    [building_envelope |-> EmptyEnvelope, subdivision |-> NoSubdivision,
     scenarios |-> <<>>, recommended_scenario |-> None,
     key_opportunities |-> <<>>, key_constraints |-> <<>>]

-----------------------------------------------------------------------------
(* Zoning *)

AustralianState == {"NSW", "QLD", "VIC", "SA", "WA", "TAS", "NT", "ACT"}

ContactCouncil == <<"Contact council for permitted uses">>

\* PlanningService._get_nsw_permitted_uses
GetNswPermittedUses(zone_code) ==
    LET uses ==
            (<<"R","1">> :> <<"Dwelling houses", "Boarding houses", "Child care centres">>)
         @@ (<<"R","2">> :> <<"Dwelling houses", "Dual occupancies", "Group homes">>)
         @@ (<<"R","3">> :> <<"Attached dwellings", "Boarding houses", "Multi dwelling housing">>)
         @@ (<<"R","4">> :> <<"Residential flat buildings", "Shop top housing", "Hostels">>)
         @@ (<<"B","1">> :> <<"Commercial premises", "Child care centres", "Medical centres">>)
         @@ (<<"B","2">> :> <<"Commercial premises", "Retail premises", "Tourist facilities">>)
         @@ (<<"B","4">> :> <<"Shop top housing", "Commercial premises", "Residential flat buildings">>)
         @@ (<<"I","N","1">> :> <<"General industries", "Warehouses", "Freight transport facilities">>)
         @@ (<<"I","N","2">> :> <<"Light industries", "Warehouses", "Hardware and building supplies">>)
    IN  IF StrUpper(zone_code) \in DOMAIN uses THEN uses[StrUpper(zone_code)] ELSE ContactCouncil

\* PlanningService._get_qld_permitted_uses
GetQldPermittedUses(zone_code) ==
    LET uses ==
            (<<"L","D","R">> :> <<"Dwelling house", "Home-based business", "Community residence">>)
         @@ (<<"L","M","R">> :> <<"Dwelling house", "Dual occupancy", "Multiple dwelling", "Rooming accommodation">>)
         @@ (<<"M","D","R">> :> <<"Multiple dwelling", "Short-term accommodation", "Residential care facility">>)
         @@ (<<"H","D","R">> :> <<"Multiple dwelling", "Hotel", "Short-term accommodation">>)
         @@ (<<"N","C">> :> <<"Shop", "Office", "Food and drink outlet", "Health care service">>)
         @@ (<<"D","C">> :> <<"Shop", "Office", "Indoor sport and recreation", "Hotel">>)
         @@ (<<"L","I">> :> <<"Low impact industry", "Warehouse", "Service industry">>)
         @@ (<<"M","I">> :> <<"Medium impact industry", "Warehouse", "Research and technology">>)
         @@ (<<"O","S">> :> <<"Park", "Sport and recreation">>)
    IN  IF StrUpper(zone_code) \in DOMAIN uses THEN uses[StrUpper(zone_code)] ELSE ContactCouncil

\* PlanningService._get_nsw_zoning, after its query
GetNswZoning(features) ==
    IF features = <<>> THEN None
    ELSE LET zone_code == AttrOr(features, "SYM_CODE", UnknownCode)
         IN  Some(ZoningInfo(zone_code, AttrOr(features, "LAY_CLASS", "Unknown"),
                             GetZoneCategory(zone_code), GetNswPermittedUses(zone_code),
                             Attr(features, "LGA_NAME"),
                             <<"NSW ePlanning - ", AttrOr(features, "EPI_NAME", "LEP")>>))

\* PlanningService._get_generic_zoning
GetGenericZoning(state) ==
    Some(ZoningInfo(UnknownCode, "Zoning data not available", "special_purpose",
                    <<>>, None, <<state, " Planning Portal">>))

\* PlanningService._land_use_to_zone
LandUseToZone(land_use) ==
    LET l == StrLower(land_use)
        Has(w) == Contains(w, l)
    IN  IF Has(<<"r","e","s","i","d","e","n","t","i","a","l">>) \/ Has(<<"u","r","b","a","n">>)
        THEN <<"L","M","R">>
        ELSE IF Has(<<"c","o","m","m","e","r","c","i","a","l">>)
                  \/ Has(<<"s","e","r","v","i","c","e","s">>)
        THEN <<"N","C">>
        ELSE IF Has(<<"i","n","d","u","s","t","r","i","a","l">>)
                  \/ Has(<<"m","a","n","u","f","a","c","t","u","r","i","n","g">>)
        THEN <<"L","I">>
        ELSE IF Has(<<"r","u","r","a","l">>)
                  \/ Has(<<"a","g","r","i","c","u","l","t","u","r","a","l">>)
                  \/ Has(<<"g","r","a","z","i","n","g">>)
        THEN <<"R","R">>
        ELSE IF Has(<<"c","o","n","s","e","r","v","a","t","i","o","n">>)
                  \/ Has(<<"n","a","t","u","r","e">>)
        THEN <<"E","C">>
        ELSE IF Has(<<"w","a","t","e","r">>)
        THEN <<"O","S">>
        ELSE <<"S","P">>

\* _get_qld_zoning, lines 205-208: the name of the local government area
QldLgaName(lga_features) ==
    IF lga_features = <<>> THEN None
    ELSE OrStr(OrStr(Attr(lga_features, "lga"), Attr(lga_features, "adminareaname")),
               Attr(lga_features, "abbrev_name"))

\* _get_qld_zoning, line 211: the Brisbane service is asked
IsBrisbane(lga_name) ==
    TruthyStr(lga_name) /\ Contains(<<"B","R","I","S","B","A","N","E">>, StrUpper(Val(lga_name)))

BrisbaneCouncil == <<"B","r","i","s","b","a","n","e"," ","C","i","t","y"," ","C","o","u","n","c","i","l">>

\* _get_qld_zoning, lines 219-232: the zoning of the Brisbane scheme's answer
QldBccZoning(bcc_features, lga_name) ==
    LET code == OrStr(OrStr(Attr(bcc_features, "ZONE_CODE"), Attr(bcc_features, "Zone_Code")),
                      Some(UnknownCode))
        zname == IF "ZONE_NAME" \in DOMAIN bcc_features[1] THEN bcc_features[1]["ZONE_NAME"]
                 ELSE IF "Zone_Name" \in DOMAIN bcc_features[1] THEN bcc_features[1]["Zone_Name"]
                 ELSE "Unknown"
    IN  Some(ZoningInfo(Val(code), zname, GetZoneCategory(Val(code)),
                        GetQldPermittedUses(Val(code)),
                        IF TruthyStr(lga_name) THEN lga_name ELSE Some(BrisbaneCouncil),
                        <<"Brisbane City Council Planning Scheme">>))

\* _get_qld_zoning, lines 242-270: the zoning of the land use layer's answer,
\* or the sentinel
QldLandUseZoning(land_use, lga_name) ==
    IF land_use # <<>>
    THEN LET primary == OrStr(OrStr(Attr(land_use, "primary_"), Attr(land_use, "PRIMARY_")),
                              Some(UnknownCode))
             zone_code == LandUseToZone(Val(primary))
         IN  Some(ZoningInfo(zone_code, <<Val(primary), " (Land Use Classification)">>,
                             GetZoneCategory(zone_code), GetQldPermittedUses(zone_code),
                             lga_name, <<"QLUMP Land Use Classification">>))
    ELSE Some(ZoningInfo(UnknownCode, "Zoning data not available", "special_purpose",
                         <<>>, lga_name, <<"Queensland Planning Framework">>))

\* lines 1180-1185 of analyze_property: the zoning when get_zoning gave none
NoZoning ==
    ZoningInfo(UnknownCode, "Zoning not available", "special_purpose", <<>>, None, None)

-----------------------------------------------------------------------------
(* Overlays *)

\* HazardOverlay(...); the advisory texts are left out
HazardOverlay(htype, cat, lvl, hname, src) ==
    [hazard_type |-> htype, category |-> cat, level |-> lvl, name |-> hname, source |-> src]

\* _get_hazard_overlays, lines 651-667
NswFloodHazard(flood_features) ==
    IF flood_features = <<>> THEN <<>>
    ELSE <<HazardOverlay("flood", Attr(flood_features, "LAY_CLASS"), "medium",
                         "Flood Planning Area", "NSW ePlanning")>>

\* _get_hazard_overlays, lines 677-705
NswBushfireHazard(bushfire_features) ==
    IF bushfire_features = <<>> THEN <<>>
    ELSE LET category == AttrOr(bushfire_features, "Category", <<>>)
             level == IF Contains(<<"F","l","a","m","e">>, category) THEN "extreme"
                      ELSE IF Contains(<<"1">>, category) THEN "high"
                      ELSE "medium"
         IN  <<HazardOverlay("bushfire", Some(category), level,
                             "Bush Fire Prone Land", "NSW RFS")>>

\* _get_hazard_overlays, lines 716-733
QldFloodHazard(flood_features) ==
    IF flood_features = <<>> THEN <<>>
    ELSE <<HazardOverlay("flood",
                         OrStr(Attr(flood_features, "Study_Name"),
                               Attr(flood_features, "STUDY_NAME")),
                         "medium", "Flood Study Area", "QLD FloodCheck")>>

\* _get_hazard_overlays, lines 743-758
QldMsesHazard(mses_features) ==
    IF mses_features = <<>> THEN <<>>
    ELSE <<HazardOverlay("contamination", None, "medium",
                         "Matter of State Environmental Significance", "QLD MSES")>>

\* _get_hazard_overlays, lines 768-783
QldKoalaHazard(koala_features) ==
    IF koala_features = <<>> THEN <<>>
    ELSE <<HazardOverlay("contamination", None, "medium",
                         "Koala Habitat Area", "QLD Koala Plan")>>

\* _get_heritage_items, lines 809-827: one item for each feature
NswHeritageItems(heritage_features) ==
    [i \in 1..Len(heritage_features) |->
        LET attrs == heritage_features[i]
            layer_class == IF "LAY_CLASS" \in DOMAIN attrs THEN StrLower(attrs["LAY_CLASS"])
                           ELSE <<>>
        IN  [heritage_type |-> IF Contains(<<"l","o","c","a","l">>, layer_class)
                               THEN "local" ELSE "state",
             listing_name |-> IF "H_NAME" \in DOMAIN attrs THEN attrs["H_NAME"]
                              ELSE "Heritage Item",
             source |-> "NSW ePlanning Heritage"]]

\* The summary whose critical flag looks at extreme hazards only.
OverlaySummaryExtremeOnly(hazards, environmental, heritage) ==
    [hazards |-> hazards, environmental |-> environmental, heritage |-> heritage,
     total_overlays |-> Len(hazards) + Len(environmental) + Len(heritage),
     has_critical_hazards |->
        \E i \in 1..Len(hazards) : hazards[i].level = "extreme",
     has_heritage_constraints |-> Len(heritage) > 0]

\* get_overlays, lines 623-634
OverlaySummary(hazards, environmental, heritage) ==
    [hazards |-> hazards, environmental |-> environmental, heritage |-> heritage,
     total_overlays |-> Len(hazards) + Len(environmental) + Len(heritage),
     has_critical_hazards |->
        \E i \in 1..Len(hazards) : hazards[i].level \in {"high", "extreme"},
     has_heritage_constraints |-> Len(heritage) > 0]

-----------------------------------------------------------------------------
(* property_sales_service.py: dates, statistics and comparable sales.
   A date is its proleptic Gregorian ordinal, as date.toordinal() gives it.
   Prices are whole dollars; a similarity score is in 1/100000, the
   valuation confidence in 1/1000 and price_change_percent in tenths of a
   percent.  A sale carries the fields the service reads:
   property_type, land_area_sqm, distance (the haversine distance of its
   lat/lon from the target, None when it has no lat/lon), sale_price,
   price_per_sqm and contract_date. *)

IsLeap(year) == year % 4 = 0 /\ (year % 100 # 0 \/ year % 400 = 0)

DaysInMonth(year, month) ==
    IF month = 2 THEN (IF IsLeap(year) THEN 29 ELSE 28)
    ELSE IF month \in {4, 6, 9, 11} THEN 30 ELSE 31

DaysBeforeYear(year) ==
    LET y == year - 1 IN y * 365 + y \div 4 - y \div 100 + y \div 400

DaysBeforeMonth(year, month) ==
    <<0, 31, 59, 90, 120, 151, 181, 212, 243, 273, 304, 334>>[month]
        + (IF month > 2 /\ IsLeap(year) THEN 1 ELSE 0)

\* date(year, month, day)
ToOrdinal(year, month, day) ==
    DaysBeforeYear(year) + DaysBeforeMonth(year, month) + day

YearOf(date) ==
    LET guess == (date * 400) \div 146097 + 1
    IN  CHOOSE y \in (guess - 1)..(guess + 1) :
            DaysBeforeYear(y) < date /\ date <= DaysBeforeYear(y + 1)

MonthOf(date) ==
    LET y == YearOf(date)
        n == date - DaysBeforeYear(y)
    IN  CHOOSE m \in 1..12 :
            DaysBeforeMonth(y, m) < n /\ n <= DaysBeforeMonth(y, m) + DaysInMonth(y, m)

DayOf(date) ==
    LET y == YearOf(date)
    IN  date - DaysBeforeYear(y) - DaysBeforeMonth(y, MonthOf(date))

\* date.replace(day=1)
ReplaceDayOne(date) == date - DayOf(date) + 1

DigitChar(n) == <<"0", "1", "2", "3", "4", "5", "6", "7", "8", "9">>[n + 1]

\* date.strftime("%Y-%m")
StrftimeYearMonth(date) ==
    LET y == YearOf(date)
        m == MonthOf(date)
    IN  <<DigitChar((y \div 1000) % 10), DigitChar((y \div 100) % 10),
          DigitChar((y \div 10) % 10), DigitChar(y % 10), "-",
          DigitChar(m \div 10), DigitChar(m % 10)>>

PropertyType == {"house", "unit", "townhouse", "villa", "land", "rural",
                 "commercial", "industrial", "other"}

PropertySale(property_type, land_area_sqm, distance, sale_price, price_per_sqm, contract_date) ==
    [property_type |-> property_type, land_area_sqm |-> land_area_sqm,
     distance |-> distance, sale_price |-> sale_price,
     price_per_sqm |-> price_per_sqm, contract_date |-> contract_date]

RECURSIVE SumSeq(_)
SumSeq(values) ==
    IF values = <<>> THEN 0 ELSE Head(values) + SumSeq(Tail(values))

RECURSIVE InsertAscending(_, _)
InsertAscending(x, sorted) ==
    IF sorted = <<>> THEN <<x>>
    ELSE IF x < Head(sorted) THEN <<x>> \o sorted
    ELSE <<Head(sorted)>> \o InsertAscending(x, Tail(sorted))

RECURSIVE SortAscending(_)
SortAscending(values) ==
    IF values = <<>> THEN <<>>
    ELSE InsertAscending(Head(values), SortAscending(Tail(values)))

\* statistics.median: the middle value, or the mean of the two middle ones
\* (to the whole unit)
Median(values) ==
    LET s == SortAscending(values)
        n == Len(s)
    IN  IF n % 2 = 1 THEN s[(n + 1) \div 2]
        ELSE (s[n \div 2] + s[n \div 2 + 1]) \div 2

\* statistics.mean, to the whole unit
Mean(values) == SumSeq(values) \div Len(values)

MinOf(values) == CHOOSE v \in {values[i] : i \in 1..Len(values)} :
                     \A i \in 1..Len(values) : v <= values[i]

MaxOf(values) == CHOOSE v \in {values[i] : i \in 1..Len(values)} :
                     \A i \in 1..Len(values) : v >= values[i]

\* round(num / den, 0) for den > 0: to the nearest whole, a tie to the even one
RoundHalfEven(num, den) ==
    LET q == num \div den
        r == num - q * den
    IN  IF 2 * r < den THEN q
        ELSE IF 2 * r > den THEN q + 1
        ELSE IF q % 2 = 0 THEN q ELSE q + 1

\* the filter that keeps every sale
SelectSalesAll(sales, keep) == sales

RECURSIVE SelectSales(_, _)
\* [s for s in sales if keep[s]], keep a set of places
SelectSales(sales, keep) ==
    IF sales = <<>> THEN <<>>
    ELSE LET n == Len(sales)
             front == SelectSales(SubSeq(sales, 1, n - 1), keep)
         IN  IF n \in keep THEN Append(front, sales[n]) ELSE front

Prices(sales) == [i \in 1..Len(sales) |-> sales[i].sale_price]

\* the i-th pass of the monthly volume loop, i in 0..11
MonthStart(today, i) == ReplaceDayOne(today) - 30 * i

MonthEnd(today, i) == ReplaceDayOne(MonthStart(today, i) + 32)

MonthlyVolume(sales, today, i) ==
    LET month_start == MonthStart(today, i)
        month_end   == MonthEnd(today, i)
    IN  [month |-> StrftimeYearMonth(month_start),
         count |-> Cardinality({k \in 1..Len(sales) :
                       /\ month_start <= sales[k].contract_date
                       /\ sales[k].contract_date < month_end})]

\* the list after monthly_volumes.reverse(): pass 11 first, pass 0 last
MonthlyVolumes(sales, today) ==
    [n \in 1..12 |-> MonthlyVolume(sales, today, 12 - n)]

\* the median taken as current_median
CurrentMedian(sales) == Median(Prices(sales))

\* price_change_percent in tenths: round(price_change, 1) if price_change
PriceChangePercent(current_median, old_median) ==
    IF TruthyNum(current_median) /\ TruthyNum(old_median)
       /\ Val(current_median) # Val(old_median)
    THEN Some(RoundHalfEven((Val(current_median) - Val(old_median)) * 1000, Val(old_median)))
    ELSE None

SalesStatistics(total_sales, sales_last_12_months, sales_last_3_months, median_price, average_price, min_price, max_price, median_price_12_months_ago, price_change_percent, median_price_per_sqm, average_price_per_sqm, by_property_type, monthly_volumes) ==
    [total_sales |-> total_sales, sales_last_12_months |-> sales_last_12_months,
     sales_last_3_months |-> sales_last_3_months, median_price |-> median_price,
     average_price |-> average_price, min_price |-> min_price, max_price |-> max_price,
     median_price_12_months_ago |-> median_price_12_months_ago,
     price_change_percent |-> price_change_percent,
     median_price_per_sqm |-> median_price_per_sqm,
     average_price_per_sqm |-> average_price_per_sqm,
     by_property_type |-> by_property_type, monthly_volumes |-> monthly_volumes]

EmptyStatistics ==
    SalesStatistics(0, 0, 0, None, None, None, None, None, None, None, None, None, None)

CalculateStats(sales, today) ==
    IF sales = <<>> THEN EmptyStatistics
    ELSE
    LET year_ago         == today - 365
        three_months_ago == today - 90
        places           == 1..Len(sales)
        prices           == Prices(sales)
        with_sqm         == SelectSales(sales, {k \in places : TruthyNum(sales[k].price_per_sqm)})
        prices_per_sqm   == [k \in 1..Len(with_sqm) |-> Val(with_sqm[k].price_per_sqm)]
        last_12_months   == SelectSales(sales, {k \in places : sales[k].contract_date >= year_ago})
        last_3_months    == SelectSales(sales, {k \in places : sales[k].contract_date >= three_months_ago})
        older_sales      == SelectSales(sales, {k \in places : sales[k].contract_date < year_ago})
        older_prices     == Prices(older_sales)
        by_type          == [t \in {sales[k].property_type : k \in places} |->
                                Cardinality({k \in places : sales[k].property_type = t})]
        current_median   == Some(CurrentMedian(sales))
        old_median       == IF older_prices # <<>> THEN Some(Median(older_prices)) ELSE None
    IN  SalesStatistics(Len(sales), Len(last_12_months), Len(last_3_months),
                        Some(Median(prices)), Some(Mean(prices)),
                        Some(MinOf(prices)), Some(MaxOf(prices)),
                        old_median,
                        PriceChangePercent(current_median, old_median),
                        IF prices_per_sqm # <<>> THEN Some(Median(prices_per_sqm)) ELSE None,
                        IF prices_per_sqm # <<>> THEN Some(Mean(prices_per_sqm)) ELSE None,
                        Some(by_type),
                        Some(MonthlyVolumes(sales, today)))

ComparableSalesRequest(origin_distance, land_area_sqm, property_type, radius_m, max_age_months, limit) ==
    [origin_distance |-> origin_distance, land_area_sqm |-> land_area_sqm,
     property_type |-> property_type, radius_m |-> radius_m,
     max_age_months |-> max_age_months, limit |-> limit]

\* the request get_comparable_sales builds: the filters it leaves out are None
SalesSearchRequest(request, today) ==
    [property_type |-> IF IsSome(request.property_type)
                       THEN Some({Val(request.property_type)}) ELSE None,
     sold_after |-> Some(today - request.max_age_months * 30),
     limit |-> 100, offset |-> 0]

RECURSIVE InsertByContractDate(_, _)
\* a stable insertion, latest contract date first
InsertByContractDate(sale, sorted) ==
    IF sorted = <<>> THEN <<sale>>
    ELSE IF sale.contract_date >= Head(sorted).contract_date THEN <<sale>> \o sorted
    ELSE <<Head(sorted)>> \o InsertByContractDate(sale, Tail(sorted))

RECURSIVE SortByContractDate(_)
\* sales.sort(key=contract_date, reverse=True)
SortByContractDate(sales) ==
    IF sales = <<>> THEN <<>>
    ELSE InsertByContractDate(Head(sales), SortByContractDate(Tail(sales)))

\* _generate_mock_results from the generated sales on: filters, sort,
\* statistics before pagination, pagination
GenerateMockResults(search_req, generated, today) ==
    LET kept  == SelectSales(generated, {k \in 1..Len(generated) :
                    /\ IsSome(search_req.property_type) =>
                           generated[k].property_type \in Val(search_req.property_type)
                    /\ IsSome(search_req.sold_after) =>
                           generated[k].contract_date >= Val(search_req.sold_after)})
        sales == SortByContractDate(kept)
        last  == Min(Len(sales), search_req.offset + search_req.limit)
    IN  [total |-> Len(sales),
         sales |-> SubSeq(sales, search_req.offset + 1, last),
         stats |-> CalculateStats(sales, today)]

\* the product so far times num / den
Scaled(score, num, den) == (score * num) \div den

Max(a, b) == IF a >= b THEN a ELSE b

\* the score before the clamp
RawSimilarity(request, sale, today) ==
    LET typed == IF IsSome(request.property_type)
                    /\ sale.property_type # Val(request.property_type)
                 THEN Scaled(100000, 7, 10) ELSE 100000
        sized == IF TruthyNum(request.land_area_sqm) /\ TruthyNum(sale.land_area_sqm)
                 THEN LET target    == Val(request.land_area_sqm)
                          delta     == Val(sale.land_area_sqm) - target
                          size_diff == IF delta < 0 THEN 0 - delta ELSE delta
                      IN  \* max(0.5, 1 - size_diff / target)
                          IF 2 * (target - size_diff) >= target
                          THEN Scaled(typed, target - size_diff, target)
                          ELSE Scaled(typed, 1, 2)
                 ELSE typed
        near  == IF IsSome(sale.distance)
                 THEN \* max(0.5, 1 - (distance / radius_m) * 0.5)
                      Scaled(sized, Max(request.radius_m, 2 * request.radius_m - Val(sale.distance)),
                             2 * request.radius_m)
                 ELSE sized
        days_ago == today - sale.contract_date
    IN  IF days_ago < 90 THEN Scaled(near, 11, 10)
        ELSE IF days_ago > 365 THEN Scaled(near, 9, 10)
        ELSE near

\* the clamp never taken: the score as it is
CalculateSimilarityUnclamped(request, sale, today) == RawSimilarity(request, sale, today)

CalculateSimilarity(request, sale, today) ==
    Min(100000, Max(0, RawSimilarity(request, sale, today)))

\* int(sale_price * (1 + (days_since / 365) * 0.05))
TimeAdjusted(sale_price, days_since) ==
    sale_price + (sale_price * days_since) \div 7300

ComparableSale(request, sale, today) ==
    [sale |-> sale,
     similarity_score |-> CalculateSimilarity(request, sale, today),
     distance_m |-> IF IsSome(sale.distance) THEN Val(sale.distance) ELSE request.origin_distance,
     days_since_sale |-> today - sale.contract_date,
     time_adjusted_price |-> TimeAdjusted(sale.sale_price, today - sale.contract_date)]

RECURSIVE InsertBySimilarity(_, _)
\* a stable insertion, highest score first
InsertBySimilarity(comparable, sorted) ==
    IF sorted = <<>> THEN <<comparable>>
    ELSE IF comparable.similarity_score >= Head(sorted).similarity_score
         THEN <<comparable>> \o sorted
    ELSE <<Head(sorted)>> \o InsertBySimilarity(comparable, Tail(sorted))

\* the comparables left in the order of the search
SortBySimilarityNever(comparables) == comparables

RECURSIVE SortBySimilarity(_)
\* comparables.sort(key=similarity_score, reverse=True)
SortBySimilarity(comparables) ==
    IF comparables = <<>> THEN <<>>
    ELSE InsertBySimilarity(Head(comparables), SortBySimilarity(Tail(comparables)))

\* every time-adjusted price, those of 0 too
AdjustedPricesAll(comparables) ==
    [k \in 1..Len(comparables) |-> comparables[k].time_adjusted_price]

RECURSIVE AdjustedPrices(_)
\* [c.time_adjusted_price for c in comparables if c.time_adjusted_price]
AdjustedPrices(comparables) ==
    IF comparables = <<>> THEN <<>>
    ELSE (IF Head(comparables).time_adjusted_price # 0
          THEN <<Head(comparables).time_adjusted_price>> ELSE <<>>)
         \o AdjustedPrices(Tail(comparables))

\* int(est_mid * 1.1) where the low end belongs
EstimateLowAbove(est_mid) == (est_mid * 11) \div 10

\* int(est_mid * 0.9)
EstimateLow(est_mid) == (est_mid * 9) \div 10

\* int(est_mid * 1.1)
EstimateHigh(est_mid) == (est_mid * 11) \div 10

\* no cap at ten comparables
ConfidenceUncapped(count) == count * 80

\* min(count / 10, 1.0) * 0.8
Confidence(count) == IF count >= 10 THEN 800 ELSE count * 80

GetComparableSales(request, generated, today) ==
    LET response    == GenerateMockResults(SalesSearchRequest(request, today), generated, today)
        scored      == [k \in 1..Len(response.sales) |->
                           ComparableSale(request, response.sales[k], today)]
        ranked      == SortBySimilarity(scored)
        comparables == SubSeq(ranked, 1, Min(Len(ranked), request.limit))
        adjusted    == AdjustedPrices(comparables)
        est_mid     == Median(adjusted)
        estimated   == comparables # <<>> /\ adjusted # <<>>
    IN  [comparables |-> comparables,
         estimated_value_low  |-> IF estimated THEN Some(EstimateLow(est_mid)) ELSE None,
         estimated_value_mid  |-> IF estimated THEN Some(est_mid) ELSE None,
         estimated_value_high |-> IF estimated THEN Some(EstimateHigh(est_mid)) ELSE None,
         confidence           |-> IF estimated THEN Some(Confidence(Len(comparables))) ELSE None,
         market_stats         |-> response.stats]

NoStatsInput == [today |-> 0, sales |-> <<>>]

NoComparablesInput == [today |-> 0, request |-> None, generated |-> <<>>]

SalesIdle ==
    /\ stats_in = NoStatsInput
    /\ stats_out = None
    /\ cmp_in = NoComparablesInput
    /\ cmp_out = None
-----------------------------------------------------------------------------
(* The cache of the data.gov.au connector *)

\* _cache_duration = timedelta(minutes=15)
CACHE_DURATION == 15

\* the names of the query parameters, in the order sort_keys puts them
ParamNames == <<"id", "q", "rows">>

RECURSIVE SortedItems(_, _)
\* the items of a dict (its name-value pairs in insertion order) in the order
\* of their names, from the n-th name on
SortedItems(dict, n) ==
    IF n > Len(ParamNames) THEN <<>>
    ELSE SelectSeq(dict, LAMBDA item : item[1] = ParamNames[n]) \o SortedItems(dict, n + 1)

\* json.dumps(params or {}, sort_keys=True)
JsonDumps(params) ==
    IF params = None \/ Val(params) = <<>> THEN <<>> ELSE SortedItems(Val(params), 1)

\* cache_key = f"{url}:{json.dumps(params or {}, sort_keys=True)}"
CacheKey(url, params) == <<url, JsonDumps(params)>>

\* self._cache[cache_key] = (data, datetime.now())
CacheEntry(data, timestamp) == [data |-> data, timestamp |-> timestamp]

\* an entry never expires
CacheHitAtAnyAge(cache, cache_key, now) == cache_key \in DOMAIN cache

\* the cache check of lines 44-47: the key is there and its entry is younger
\* than the cache duration
CacheHit(cache, cache_key, now) ==
    /\ cache_key \in DOMAIN cache
    /\ now - cache[cache_key].timestamp < CACHE_DURATION

\* the cache with the entry of cache_key set
CacheSet(cache, cache_key, entry) ==
    [k \in DOMAIN cache \cup {cache_key} |-> IF k = cache_key THEN entry ELSE cache[k]]

\* what a step of _request did: "hit" (answered from the cache), "call" (the
\* external call is issued), "stored" (the call succeeded and its data is
\* cached), "failed" (the call raised); seen is the entry the cache had for
\* the key before the step
GatewayEvent(kind, cache_key, data, cache) ==
    [kind |-> kind, key |-> cache_key, data |-> data,
     seen |-> IF cache_key \in DOMAIN cache THEN Some(cache[cache_key]) ELSE None]

NoCache == [k \in {} |-> None]

\* the requests made of the connector: url and params
GatewayRequests ==
    {<<"package_show", None>>,
     <<"package_show", Some(<<>>)>>,
     <<"package_search", Some(<<<<"q", "zoning">>, <<"rows", "10">>>>)>>,
     <<"package_search", Some(<<<<"rows", "10">>, <<"q", "zoning">>>>)>>,
     <<"package_show", Some(<<<<"id", "zoning">>>>)>>}

GatewayKeys == {CacheKey(r[1], r[2]) : r \in GatewayRequests}

\* a connector just constructed (lines 28-32), nothing asked of it
GatewayIdle ==
    /\ gw_now = 0
    /\ gw_cache = NoCache
    /\ gw_calls = [k \in GatewayKeys |-> 0]
    /\ gw_last = [kind |-> "none", key |-> None, data |-> None, seen |-> None]

-----------------------------------------------------------------------------
(* The gateway to the layer services *)

\* How a layer service can answer one query
FailureKinds == {"timeout", "http_error", "error_payload", "no_features_key"}

Answers(payloads) ==
    {[kind |-> k, features |-> <<>>] : k \in FailureKinds}
        \cup {[kind |-> "features", features |-> f] : f \in payloads \cup {<<>>}}

\* The gateway letting a transport failure out to its caller.
QueryArcgisPropagates(ans) ==
    IF ans.kind \in {"timeout", "http_error"}
    THEN [raised |-> TRUE, features |-> <<>>]
    ELSE IF ans.kind = "error_payload"
         THEN [raised |-> FALSE, features |-> <<>>]
         ELSE [raised |-> FALSE, features |-> ans.features]

\* PlanningService._query_arcgis: the features of the answer; an exception
\* (lines 156-158) and an error payload (lines 151-153) give no features
QueryArcgis(ans) ==
    IF ans.kind \in {"timeout", "http_error"}
    THEN [raised |-> FALSE, features |-> <<>>]
    ELSE IF ans.kind = "error_payload"
         THEN [raised |-> FALSE, features |-> <<>>]
         ELSE [raised |-> FALSE, features |-> ans.features]

-----------------------------------------------------------------------------
(* What the layer services can hold at a point *)

NswZoneCodes ==
    {<<"R","2">>, <<"R","3">>, <<"R","4">>, <<"B","2">>, <<"B","4">>, <<"R","U","1">>}

NswZoningPayloads ==
    {<<[SYM_CODE |-> c, LAY_CLASS |-> "Zone", EPI_NAME |-> "Local Environmental Plan"]>> :
        c \in NswZoneCodes}
        \cup {<<[LAY_CLASS |-> "Zone"]>>}

NswHeightPayloads ==
    {<<[MAX_B_H_M |-> <<"9">>]>>,
     <<[MAX_B_H |-> <<"9",".","6">>]>>,
     <<[MAX_B_H_M |-> <<>>, MAX_B_H |-> <<"1","2",".","8"," ","m">>]>>,
     <<[MAX_B_H_M |-> <<"0">>]>>,
     <<[MAX_B_H |-> <<"n","/","a">>]>>,
     <<[UNITS |-> <<"m">>]>>}

NswFsrPayloads ==
    {<<[FSR |-> <<"0",".","5",":","1">>]>>,
     <<[FSR |-> <<"2">>]>>,
     <<[FSR |-> <<"0">>]>>,
     <<[FSR |-> <<"n","/","a">>]>>,
     <<[LAY_CLASS |-> <<"F","S","R">>]>>}

NswLotSizePayloads ==
    {<<[LOT_SIZE |-> <<"1",",","0","0","0","s","q","m">>]>>,
     <<[LOT_SIZE |-> <<"3","0","0">>]>>,
     <<[LOT_SIZE |-> <<"t","b","c">>]>>}

FloodPayloads == {<<[LAY_CLASS |-> <<"F","P","A">>]>>}

BushfirePayloads ==
    {<<[Category |-> <<"F","l","a","m","e"," ","Z","o","n","e">>]>>,
     <<[Category |-> <<"C","a","t","e","g","o","r","y"," ","1">>]>>,
     <<[Category |-> <<"B","u","f","f","e","r">>]>>}

MaxHeritage == 1

HeritageFeatures ==
    {[LAY_CLASS |-> <<"I","t","e","m"," ","-"," ","L","o","c","a","l">>, H_NAME |-> "Old Mill"],
     [LAY_CLASS |-> <<"I","t","e","m"," ","-"," ","S","t","a","t","e">>]}

HeritagePayloads == UNION {[1..k -> HeritageFeatures] : k \in 1..MaxHeritage}

QldLgaPayloads ==
    {<<[lga |-> <<"B","r","i","s","b","a","n","e"," ","C","i","t","y">>]>>,
     <<[adminareaname |-> <<"L","O","G","A","N">>]>>,
     <<[adminareaname |-> <<"L","O","G","A","N">>],
       [lga |-> <<"B","r","i","s","b","a","n","e"," ","C","i","t","y">>]>>}

QldBccPayloads ==
    {<<[ZONE_CODE |-> <<"L","M","R">>, ZONE_NAME |-> "Low-medium density residential"]>>,
     <<[Zone_Code |-> <<"H","D","R">>]>>,
     <<[ZONE_NAME |-> "Unnamed"]>>,
     <<[Zone_Code |-> <<"H","D","R">>],
       [ZONE_CODE |-> <<"L","M","R">>, ZONE_NAME |-> "Low-medium density residential"]>>}

QldLandUsePayloads ==
    {<<[primary_ |-> <<"R","e","s","i","d","e","n","t","i","a","l">>]>>,
     <<[PRIMARY_ |-> <<"G","r","a","z","i","n","g">>]>>,
     <<[qlump_code |-> <<"5">>]>>,
     <<[PRIMARY_ |-> <<"G","r","a","z","i","n","g">>],
       [primary_ |-> <<"R","e","s","i","d","e","n","t","i","a","l">>]>>}

QldOverlayPayloads == {<<[OBJECTID |-> <<"1">>]>>}

-----------------------------------------------------------------------------
(* Requests *)

\* AustralianState(text): the member with that value, None for ValueError
StateOf(text) ==
    LET names ==
            (<<"N","S","W">> :> "NSW") @@ (<<"Q","L","D">> :> "QLD")
         @@ (<<"V","I","C">> :> "VIC") @@ (<<"S","A">> :> "SA")
         @@ (<<"W","A">> :> "WA") @@ (<<"T","A","S">> :> "TAS")
         @@ (<<"N","T">> :> "NT") @@ (<<"A","C","T">> :> "ACT")
    IN  IF text \in DOMAIN names THEN Some(names[text]) ELSE None

RequestStates ==
    {<<"N","S","W">>, <<"Q","L","D">>, <<"V","I","C">>, <<"S","A">>, <<"W","A">>,
     <<"T","A","S">>, <<"N","T">>, <<"A","C","T">>, <<"q","l","d">>, <<"X","X">>}

\* <<lat, lon>> in whole degrees
RequestPoints == {<<-34, 151>>, <<95, 151>>, <<-34, 190>>}

RequestLotAreas == {None, Some(0), Some(6500)}

RequestZoneCodes == {None, Some(<<"R","2">>)}

ApiOps == {"zoning", "controls", "overlays", "analyze", "quick"}

\* Field(..., ge=-90, le=90) and Field(..., ge=-180, le=180)
InRange(lat, lon) == lat >= -90 /\ lat <= 90 /\ lon >= -180 /\ lon <= 180

-----------------------------------------------------------------------------
(* One request through the API and the planning service.                   *)
(* A request runs from one await to the next: each action below is one     *)
(* layer query together with all the code up to the next query or to the   *)
(* response.                                                               *)

\* The request's progress: where it stands and its locals so far
Frame ==
    [pc |-> "start", queries |-> <<>>, features |-> <<>>, zoning |-> None, lga_name |-> None,
     controls |-> EmptyControls, hazards |-> <<>>, overlays |-> None,
     resp |-> [status |-> "none", body |-> None]]

Cur ==
    [pc |-> pc, queries |-> locals.queries, features |-> locals.features,
     zoning |-> locals.zoning,
     lga_name |-> locals.lga_name, controls |-> locals.controls,
     hazards |-> locals.hazards, overlays |-> locals.overlays, resp |-> resp]

LocalsOf(s) ==
    [queries |-> s.queries, features |-> s.features, zoning |-> s.zoning,
     lga_name |-> s.lga_name,
     controls |-> s.controls, hazards |-> s.hazards, overlays |-> s.overlays]

Apply(s) ==
    /\ pc' = s.pc
    /\ locals' = LocalsOf(s)
    /\ resp' = s.resp

\* A query that gave no features is issued a second time.
QueriedAgainWhenEmpty(layer, features) ==
    [Cur EXCEPT !.queries = IF features = <<>> THEN @ \o <<layer, layer>> ELSE Append(@, layer),
                !.features = features]

\* the query of layer is issued and _query_arcgis returns features
Queried(layer, features) ==
    [Cur EXCEPT !.queries = Append(@, layer), !.features = features]

\* return, or raise HTTPException
Respond(s, status, body) ==
    [s EXCEPT !.pc = "done", !.resp = [status |-> status, body |-> body]]

\* An exception leaves the service: the API handlers answer 500
\* ("except Exception as e: raise HTTPException(status_code=500, ...)"),
\* a direct caller of the service gets the exception
OnRaise(r, s) ==
    IF r.op = "service_analyze" THEN Respond(s, "raised", None) ELSE Respond(s, "500", None)

\* the jurisdiction the service is called with
ServiceState(r) ==
    IF r.state = None THEN "NSW" ELSE Val(StateOf(IF r.op = "analyze" THEN Val(r.state)
                                                  ELSE StrUpper(Val(r.state))))

\* the lot area the service is called with: /controls passes its lot_area,
\* /analyze passes None (line 178), get_brief_analysis passes none
ServiceLotArea(r) ==
    IF r.op \in {"controls", "service_analyze"} THEN r.lot_area ELSE None

\* the zone code get_development_controls is called with
ControlsZoneCode(r, s) ==
    IF r.op = "controls" /\ TruthyStr(r.zone_code) THEN Val(r.zone_code)
    ELSE IF IsSome(s.zoning) THEN Val(s.zoning).zone_code
    ELSE UnknownCode

\* The limitations without the note on jurisdictions with limited data.
LimitationsStandardOnly(state) ==
    <<"This analysis is for informational purposes only",
      "Always verify with local council planning department",
      "Development controls may vary - check specific LEP/planning scheme">>

\* analyze_property, lines 1207-1217
Limitations(state) ==
    <<"This analysis is for informational purposes only",
      "Always verify with local council planning department",
      "Development controls may vary - check specific LEP/planning scheme">>
    \o (IF state \notin {"NSW", "QLD"}
        THEN <<<<"Limited data available for ", state, " - manual verification recommended">>>>
        ELSE <<>>)

\* The potential computed whether or not scenarios are asked for.
PotentialOfAlways(include_scenarios, z, c, o, lot_area_sqm) ==
    GetDevelopmentPotential(z, c, o, lot_area_sqm)

\* analyze_property, lines 1196-1205
PotentialOf(include_scenarios, z, c, o, lot_area_sqm) ==
    IF include_scenarios THEN GetDevelopmentPotential(z, c, o, lot_area_sqm) ELSE NoPotential

\* analyze_property, lines 1195-1231: confidence_score is stored times 100
FinishAnalysis(r, s) ==
    LET state == ServiceState(r)
    IN  Respond(s, "ok",
            [location |-> [address |-> <<r.lat, ", ", r.lon>>, lat |-> r.lat, lon |-> r.lon,
                           state |-> state, lot_area_sqm |-> ServiceLotArea(r)],
             zoning |-> Val(s.zoning),
             development_controls |-> s.controls,
             overlays |-> Val(s.overlays),
             development_potential |->
                PotentialOf(r.include_scenarios, Val(s.zoning), s.controls,
                            Val(s.overlays), ServiceLotArea(r)),
             data_sources |-> <<<<state, " Planning Portal">>,
                                IF state = "NSW" THEN "ePlanning Spatial Viewer"
                                ELSE "QLD Globe">>,
             confidence_score |-> IF state \in {"NSW", "QLD"} THEN 85 ELSE 60,
             limitations |-> Limitations(state)])

\* get_brief_analysis, lines 1246-1255: Coordinates(lat=..., lon=...) is
\* validated when the answer is built, and a validation error is an exception
FinishBrief(r, s) ==
    IF ~InRange(r.lat, r.lon) THEN OnRaise(r, s)
    ELSE Respond(s, "ok",
            [location |-> [lat |-> r.lat, lon |-> r.lon],
             zone_code |-> IF IsSome(s.zoning) THEN Val(s.zoning).zone_code ELSE UnknownCode,
             zone_name |-> IF IsSome(s.zoning) THEN Val(s.zoning).zone_name ELSE "Unknown",
             zone_category |-> IF IsSome(s.zoning) THEN Val(s.zoning).zone_category
                               ELSE "special_purpose",
             hazard_count |-> Len(Val(s.overlays).hazards),
             has_heritage |-> Val(s.overlays).has_heritage_constraints,
             max_height_m |-> IF IsSome(s.controls.height_limit)
                              THEN Val(s.controls.height_limit).max_value ELSE None,
             max_fsr |-> IF IsSome(s.controls.fsr)
                         THEN Val(s.controls.fsr).max_value ELSE None])

RECURSIVE StartControls(_, _)
RECURSIVE StartOverlays(_, _)

\* get_overlays has returned
AfterOverlays(r, s) ==
    IF r.op = "overlays" THEN Respond(s, "ok", Val(s.overlays))
    ELSE IF r.op = "quick" THEN StartControls(r, s)
    ELSE FinishAnalysis(r, s)

\* get_development_controls has returned
AfterControls(r, s) ==
    IF r.op = "controls" THEN Respond(s, "ok", s.controls)
    ELSE IF r.op = "quick" THEN FinishBrief(r, s)
    ELSE StartOverlays(r, s)

\* PlanningService.get_overlays up to its first query; only NSW and QLD have
\* overlay layers
StartOverlays(r, s) ==
    IF ServiceState(r) = "NSW" THEN [s EXCEPT !.pc = "nsw_flood"]
    ELSE IF ServiceState(r) = "QLD" THEN [s EXCEPT !.pc = "qld_flood"]
    ELSE AfterOverlays(r, [s EXCEPT !.overlays = Some(OverlaySummary(<<>>, <<>>, <<>>))])

\* PlanningService.get_development_controls up to its first query; only NSW
\* has control layers
StartControls(r, s) ==
    IF ServiceState(r) = "NSW" THEN [s EXCEPT !.pc = "nsw_height"]
    ELSE AfterControls(r, [s EXCEPT !.controls =
            WithEstimates(IF ServiceState(r) = "QLD"
                          THEN GetQldControls(ControlsZoneCode(r, s))
                          ELSE GetDefaultControls(ControlsZoneCode(r, s)),
                          ServiceLotArea(r))])

\* PlanningService.get_zoning has returned: /zoning answers 404 for None
\* (lines 78-79), analyze_property puts NoZoning in its place (lines 1180-1185)
AfterZoning(r, s) ==
    IF r.op = "zoning"
    THEN IF s.zoning = None THEN Respond(s, "404", None)
         ELSE Respond(s, "ok", Val(s.zoning))
    ELSE IF r.op = "quick" THEN StartOverlays(r, s)
    ELSE IF r.op = "controls" THEN StartControls(r, s)
    ELSE StartControls(r, [s EXCEPT !.zoning = IF @ = None THEN Some(NoZoning) ELSE @])

\* PlanningService.get_zoning up to its first query
StartZoning(r, s) ==
    IF ServiceState(r) = "NSW" THEN [s EXCEPT !.pc = "nsw_zoning"]
    ELSE IF ServiceState(r) = "QLD" THEN [s EXCEPT !.pc = "qld_lga"]
    ELSE AfterZoning(r, [s EXCEPT !.zoning = GetGenericZoning(ServiceState(r))])

\* The request is rejected by the API before the service is called: 400 for
\* a state that is no AustralianState (lines 71-74, 103-106, 137-140,
\* 197-200), 422 for a body that is no PropertyAnalysisRequest
Rejection(r) ==
    IF r.op = "analyze"
    THEN IF ~InRange(r.lat, r.lon) \/ (r.state # None /\ StateOf(Val(r.state)) = None)
         THEN Some("422") ELSE None
    ELSE IF r.op \in ApiOps
    THEN IF StateOf(StrUpper(Val(r.state))) = None THEN Some("400") ELSE None
    ELSE None

\* The handler from its entry to its first query
Dispatch(r) ==
    IF IsSome(Rejection(r)) THEN Respond(Frame, Val(Rejection(r)), None)
    ELSE IF r.op = "overlays" THEN StartOverlays(r, Frame)
    ELSE IF r.op = "controls" /\ TruthyStr(r.zone_code) THEN StartControls(r, Frame)
    ELSE StartZoning(r, Frame)

\* The requests: the five endpoints with their query parameters or body, and
\* a direct call of PlanningService.analyze_property
Requests ==
    {[op |-> o, state |-> Some(st), lat |-> p[1], lon |-> p[2], lot_area |-> None,
      zone_code |-> None, include_scenarios |-> TRUE] :
        o \in {"zoning", "overlays", "quick"}, st \in RequestStates, p \in RequestPoints}
    \cup
    {[op |-> "controls", state |-> Some(st), lat |-> p[1], lon |-> p[2], lot_area |-> a,
      zone_code |-> z, include_scenarios |-> TRUE] :
        st \in RequestStates, p \in RequestPoints, a \in RequestLotAreas,
        z \in RequestZoneCodes}
    \cup
    {[op |-> "analyze", state |-> st, lat |-> p[1], lon |-> p[2], lot_area |-> None,
      zone_code |-> None, include_scenarios |-> i] :
        st \in {None} \cup {Some(x) : x \in RequestStates}, p \in RequestPoints,
        i \in BOOLEAN}
    \cup
    {[op |-> "service_analyze", state |-> Some(st), lat |-> -34, lon |-> 151,
      lot_area |-> a, zone_code |-> None, include_scenarios |-> i] :
        st \in {x \in RequestStates : StateOf(x) # None}, a \in RequestLotAreas,
        i \in BOOLEAN}

NoRequest ==
    [op |-> "none", state |-> None, lat |-> 0, lon |-> 0, lot_area |-> None,
     zone_code |-> None, include_scenarios |-> TRUE]

\* No request is in progress
Idle ==
    /\ req = NoRequest
    /\ pc = "idle"
    /\ locals = LocalsOf(Frame)
    /\ resp = Frame.resp

\* The potential engine has not been called
NoPotentialInput ==
    [zoning |-> NoZoning, controls |-> EmptyControls,
     overlays |-> OverlaySummary(<<>>, <<>>, <<>>), lot_area_sqm |-> None,
     include_scenarios |-> TRUE]

Init ==
    /\ Idle
    /\ zc_in = <<>>
    /\ zc_out = None
    /\ pot_in = NoPotentialInput
    /\ pot_out = None
    /\ SalesIdle
    /\ GatewayIdle

\* layer names: PlanningService, lines 42-56, 200 and 213-214
NSW_ZONING_LAYER == "ePlanning/Planning_Portal_Principal_Planning/MapServer/19"

NSW_HEIGHT_LAYER == "ePlanning/Planning_Portal_Principal_Planning/MapServer/14"

NSW_FSR_LAYER == "ePlanning/Planning_Portal_Principal_Planning/MapServer/11"

NSW_LOT_SIZE_LAYER == "ePlanning/Planning_Portal_Principal_Planning/MapServer/22"

NSW_HERITAGE_LAYER == "ePlanning/Planning_Portal_Principal_Planning/MapServer/16"

NSW_FLOOD_LAYER == "ePlanning/Planning_Portal_Hazard/MapServer/230"

NSW_BUSHFIRE_LAYER == "ePlanning/Planning_Portal_Hazard/MapServer/229"

QLD_LGA_LAYER == "PlanningCadastre/LandParcelPropertyFramework/MapServer/20"

BCC_ZONING_LAYER == "OpenData/OpenData_PlanningScheme/MapServer/3"

QLD_ZONING_LAYER == "PlanningCadastre/LandUse/MapServer/0"

QLD_FLOOD_LAYER == "FloodCheck/FloodStudies/MapServer/0"

QLD_MSES_LAYER == "Environment/MattersOfStateEnvironmentalSignificance/MapServer/0"

QLD_KOALA_LAYER == "Environment/KoalaPlan/MapServer/0"

\* A request arrives: an API handler validates it and runs to its first
\* query, or to its response when the jurisdiction has no layer to query
Request ==
    /\ pc = "idle"
    /\ \E r \in Requests :
          /\ req' = r
          /\ Apply(Dispatch(r))
    /\ UNCHANGED <<zoneVars, engineVars, salesVars, gatewayVars>>

\* _get_nsw_zoning: the zoning layer answers
QueryNswZoning ==
    /\ pc = "nsw_zoning"
    /\ \E ans \in Answers(NswZoningPayloads) :
          LET res == QueryArcgis(ans)
              s   == Queried(NSW_ZONING_LAYER, res.features)
          IN  Apply(IF res.raised THEN OnRaise(req, s)
                    ELSE AfterZoning(req, [s EXCEPT !.zoning = GetNswZoning(res.features)]))
    /\ UNCHANGED <<req, zoneVars, engineVars, salesVars, gatewayVars>>

\* _get_qld_zoning, lines 198-211: the LGA layer answers
QueryQldLga ==
    /\ pc = "qld_lga"
    /\ \E ans \in Answers(QldLgaPayloads) :
          LET res == QueryArcgis(ans)
              s   == Queried(QLD_LGA_LAYER, res.features)
              lga == QldLgaName(res.features)
          IN  Apply(IF res.raised THEN OnRaise(req, s)
                    ELSE [s EXCEPT !.lga_name = lga,
                                   !.pc = IF IsBrisbane(lga) THEN "qld_bcc"
                                          ELSE "qld_land_use"])
    /\ UNCHANGED <<req, zoneVars, engineVars, salesVars, gatewayVars>>

\* _get_qld_zoning, lines 212-232: the Brisbane planning scheme answers
QueryQldBcc ==
    /\ pc = "qld_bcc"
    /\ \E ans \in Answers(QldBccPayloads) :
          LET res == QueryArcgis(ans)
              s   == Queried(BCC_ZONING_LAYER, res.features)
          IN  Apply(IF res.raised THEN OnRaise(req, s)
                    ELSE IF res.features # <<>>
                    THEN AfterZoning(req, [s EXCEPT !.zoning =
                                              QldBccZoning(res.features, locals.lga_name)])
                    ELSE [s EXCEPT !.pc = "qld_land_use"])
    /\ UNCHANGED <<req, zoneVars, engineVars, salesVars, gatewayVars>>

\* _get_qld_zoning, lines 235-270: the land use layer answers
QueryQldLandUse ==
    /\ pc = "qld_land_use"
    /\ \E ans \in Answers(QldLandUsePayloads) :
          LET res == QueryArcgis(ans)
              s   == Queried(QLD_ZONING_LAYER, res.features)
          IN  Apply(IF res.raised THEN OnRaise(req, s)
                    ELSE AfterZoning(req, [s EXCEPT !.zoning =
                                              QldLandUseZoning(res.features, locals.lga_name)]))
    /\ UNCHANGED <<req, zoneVars, engineVars, salesVars, gatewayVars>>

\* _get_nsw_controls, lines 435-456: the height layer answers
QueryNswHeight ==
    /\ pc = "nsw_height"
    /\ \E ans \in Answers(NswHeightPayloads) :
          LET res == QueryArcgis(ans)
              s   == Queried(NSW_HEIGHT_LAYER, res.features)
          IN  Apply(IF res.raised THEN OnRaise(req, s)
                    ELSE [s EXCEPT !.controls = [EmptyControls EXCEPT
                                        !.height_limit = NswHeightControl(res.features)],
                                   !.pc = "nsw_fsr"])
    /\ UNCHANGED <<req, zoneVars, engineVars, salesVars, gatewayVars>>

\* _get_nsw_controls, lines 459-481: the FSR layer answers
QueryNswFsr ==
    /\ pc = "nsw_fsr"
    /\ \E ans \in Answers(NswFsrPayloads) :
          LET res == QueryArcgis(ans)
              s   == Queried(NSW_FSR_LAYER, res.features)
          IN  Apply(IF res.raised THEN OnRaise(req, s)
                    ELSE [s EXCEPT !.controls.fsr = NswFsrControl(res.features),
                                   !.pc = "nsw_lot"])
    /\ UNCHANGED <<req, zoneVars, engineVars, salesVars, gatewayVars>>

\* _get_nsw_controls, lines 484-509, and get_development_controls, lines
\* 418-426: the lot size layer answers, the setbacks and the estimates follow
QueryNswLotSize ==
    /\ pc = "nsw_lot"
    /\ \E ans \in Answers(NswLotSizePayloads) :
          LET res == QueryArcgis(ans)
              s   == Queried(NSW_LOT_SIZE_LAYER, res.features)
          IN  Apply(IF res.raised THEN OnRaise(req, s)
                    ELSE AfterControls(req, [s EXCEPT !.controls =
                            WithEstimates(
                                [s.controls EXCEPT
                                    !.lot_size = NswLotSizeControl(res.features),
                                    !.setbacks = GetDefaultSetbacks(ControlsZoneCode(req, s))],
                                ServiceLotArea(req))]))
    /\ UNCHANGED <<req, zoneVars, engineVars, salesVars, gatewayVars>>

\* _get_hazard_overlays, lines 644-667: the NSW flood layer answers
QueryNswFlood ==
    /\ pc = "nsw_flood"
    /\ \E ans \in Answers(FloodPayloads) :
          LET res == QueryArcgis(ans)
              s   == Queried(NSW_FLOOD_LAYER, res.features)
          IN  Apply(IF res.raised THEN OnRaise(req, s)
                    ELSE [s EXCEPT !.hazards = NswFloodHazard(res.features),
                                   !.pc = "nsw_bushfire"])
    /\ UNCHANGED <<req, zoneVars, engineVars, salesVars, gatewayVars>>

\* _get_hazard_overlays, lines 670-705: the NSW bushfire layer answers
QueryNswBushfire ==
    /\ pc = "nsw_bushfire"
    /\ \E ans \in Answers(BushfirePayloads) :
          LET res == QueryArcgis(ans)
              s   == Queried(NSW_BUSHFIRE_LAYER, res.features)
          IN  Apply(IF res.raised THEN OnRaise(req, s)
                    ELSE [s EXCEPT !.hazards = @ \o NswBushfireHazard(res.features),
                                   !.pc = "nsw_heritage"])
    /\ UNCHANGED <<req, zoneVars, engineVars, salesVars, gatewayVars>>

\* _get_heritage_items, lines 802-829, and get_overlays, lines 623-634: the
\* NSW heritage layer answers and the summary is built
QueryNswHeritage ==
    /\ pc = "nsw_heritage"
    /\ \E ans \in Answers(HeritagePayloads) :
          LET res == QueryArcgis(ans)
              s   == Queried(NSW_HERITAGE_LAYER, res.features)
          IN  Apply(IF res.raised THEN OnRaise(req, s)
                    ELSE AfterOverlays(req, [s EXCEPT !.overlays =
                            Some(OverlaySummary(s.hazards, <<>>,
                                                NswHeritageItems(res.features)))]))
    /\ UNCHANGED <<req, zoneVars, engineVars, salesVars, gatewayVars>>

\* _get_hazard_overlays, lines 709-733: the QLD flood study layer answers
QueryQldFlood ==
    /\ pc = "qld_flood"
    /\ \E ans \in Answers(QldOverlayPayloads) :
          LET res == QueryArcgis(ans)
              s   == Queried(QLD_FLOOD_LAYER, res.features)
          IN  Apply(IF res.raised THEN OnRaise(req, s)
                    ELSE [s EXCEPT !.hazards = QldFloodHazard(res.features),
                                   !.pc = "qld_mses"])
    /\ UNCHANGED <<req, zoneVars, engineVars, salesVars, gatewayVars>>

\* _get_hazard_overlays, lines 736-758: the QLD MSES layer answers
QueryQldMses ==
    /\ pc = "qld_mses"
    /\ \E ans \in Answers(QldOverlayPayloads) :
          LET res == QueryArcgis(ans)
              s   == Queried(QLD_MSES_LAYER, res.features)
          IN  Apply(IF res.raised THEN OnRaise(req, s)
                    ELSE [s EXCEPT !.hazards = @ \o QldMsesHazard(res.features),
                                   !.pc = "qld_koala"])
    /\ UNCHANGED <<req, zoneVars, engineVars, salesVars, gatewayVars>>

\* _get_hazard_overlays, lines 761-785, and get_overlays, lines 620-634: the
\* QLD koala layer answers and the summary is built; QLD has no heritage layer
QueryQldKoala ==
    /\ pc = "qld_koala"
    /\ \E ans \in Answers(QldOverlayPayloads) :
          LET res == QueryArcgis(ans)
              s   == Queried(QLD_KOALA_LAYER, res.features)
          IN  Apply(IF res.raised THEN OnRaise(req, s)
                    ELSE AfterOverlays(req, [s EXCEPT !.overlays =
                            Some(OverlaySummary(s.hazards \o QldKoalaHazard(res.features),
                                                <<>>, <<>>)),
                            !.hazards = @ \o QldKoalaHazard(res.features)]))
    /\ UNCHANGED <<req, zoneVars, engineVars, salesVars, gatewayVars>>

\* The response has been sent; the service keeps nothing of the request
Return ==
    /\ pc = "done"
    /\ req' = NoRequest
    /\ pc' = "idle"
    /\ locals' = LocalsOf(Frame)
    /\ resp' = Frame.resp
    /\ UNCHANGED <<zoneVars, engineVars, salesVars, gatewayVars>>

Next ==
    \/ Request
    \/ QueryNswZoning
    \/ QueryQldLga
    \/ QueryQldBcc
    \/ QueryQldLandUse
    \/ QueryNswHeight
    \/ QueryNswFsr
    \/ QueryNswLotSize
    \/ QueryNswFlood
    \/ QueryNswBushfire
    \/ QueryNswHeritage
    \/ QueryQldFlood
    \/ QueryQldMses
    \/ QueryQldKoala
    \/ Return

Spec == Init /\ [][Next]_vars

\* A layer service answers the query the request awaits: with features,
\* with none, with an error, or by the timeout of 30 seconds
LayerAnswers ==
    \/ QueryNswZoning \/ QueryQldLga \/ QueryQldBcc \/ QueryQldLandUse
    \/ QueryNswHeight \/ QueryNswFsr \/ QueryNswLotSize
    \/ QueryNswFlood \/ QueryNswBushfire \/ QueryNswHeritage
    \/ QueryQldFlood \/ QueryQldMses \/ QueryQldKoala

\* analyze_property is called, through the API or directly
RequestAnalysis ==
    /\ pc = "idle"
    /\ \E r \in {x \in Requests : x.op \in {"analyze", "service_analyze"}} :
          /\ req' = r
          /\ Apply(Dispatch(r))
    /\ UNCHANGED <<zoneVars, engineVars, salesVars, gatewayVars>>

NextAnalysis == RequestAnalysis \/ LayerAnswers

\* where a request stands while it awaits the answer of a layer service
Awaiting ==
    {"nsw_zoning", "qld_lga", "qld_bcc", "qld_land_use", "nsw_height", "nsw_fsr", "nsw_lot",
     "nsw_flood", "nsw_bushfire", "nsw_heritage", "qld_flood", "qld_mses", "qld_koala"}

\* The request leaves the await it stands at: the step LayerAnswers takes
AwaitReturns == pc \in Awaiting /\ pc' \in (Awaiting \cup {"done"}) \ {pc}

\* One analysis, every query of which is answered in the end: client.get
\* returns, raises, or times out after 30 seconds (timeout=30.0), and the
\* event loop resumes the coroutine
SpecAnalysis == Init /\ [][NextAnalysis]_vars /\ WF_pc(AwaitReturns)

-----------------------------------------------------------------------------
(* The development potential engine on its own: analyze_property's call of
   get_development_potential (lines 1195-1205) over the zonings, controls,
   overlays and lot areas that reach it *)

\* lot areas in tenths of a square metre
PotentialLotAreas ==
    {None, Some(0), Some(4000), Some(5000), Some(6000), Some(6500), Some(8000), Some(10000)}

\* what get_zoning hands to analyze_property
PotentialZonings ==
    {Val(GetNswZoning(f)) : f \in NswZoningPayloads} \cup {NoZoning}
        \cup {Val(GetGenericZoning("VIC"))}

\* what get_development_controls returns for a zone code and a lot area
PotentialControls(zone_code, lot_area_sqm) ==
    {WithEstimates(GetDefaultControls(zone_code), lot_area_sqm)}
    \cup
    {WithEstimates([EmptyControls EXCEPT
                        !.height_limit = NswHeightControl(h),
                        !.fsr = NswFsrControl(f),
                        !.lot_size = NswLotSizeControl(l),
                        !.setbacks = GetDefaultSetbacks(zone_code)],
                   lot_area_sqm) :
        h \in {x \in NswHeightPayloads : "MAX_B_H_M" \in DOMAIN x[1]} \cup {<<>>}, f \in NswFsrPayloads \cup {<<>>},
        l \in NswLotSizePayloads \cup {<<>>}}

\* what get_overlays returns: no overlay, or a flood hazard
PotentialOverlays ==
    {OverlaySummary(NswFloodHazard(x), <<>>, <<>>) : x \in FloodPayloads \cup {<<>>}}

\* the calls for one zoning and one lot area
PotentialInputs(zoning, lot_area_sqm) ==
    {[zoning |-> zoning, controls |-> c, overlays |-> o, lot_area_sqm |-> lot_area_sqm,
      include_scenarios |-> i] :
        c \in PotentialControls(zoning.zone_code, lot_area_sqm), o \in PotentialOverlays,
        i \in BOOLEAN}

InitPotential ==
    /\ Idle
    /\ zc_in = <<>>
    /\ zc_out = None
    /\ \E z \in PotentialZonings, a \in PotentialLotAreas : pot_in \in PotentialInputs(z, a)
    /\ pot_out = None
    /\ SalesIdle
    /\ GatewayIdle

\* analyze_property, lines 1195-1205
ComputePotential ==
    /\ pot_out = None
    /\ pot_out' = Some(PotentialOf(pot_in.include_scenarios, pot_in.zoning, pot_in.controls,
                                   pot_in.overlays, pot_in.lot_area_sqm))
    /\ UNCHANGED <<pot_in, mainVars, zoneVars, salesVars, gatewayVars>>

NextPotential == ComputePotential

SpecPotential == InitPotential /\ [][NextPotential]_vars

-----------------------------------------------------------------------------
(* The statistics of a list of sales *)

StatsYears == {2026, 2028}

\* the first, the fifteenth and the last day of every month
StatsTodays ==
    {ToOrdinal(y, m, d) : y \in StatsYears, m \in 1..12, d \in {1, 15}}
    \cup {ToOrdinal(y, m, DaysInMonth(y, m)) : y \in StatsYears, m \in 1..12}

\* days_ago of the generated sales, within random.randint(1, 730)
StatsDaysAgo == {1, 44, 90, 91, 365, 366, 700}

StatsPrices == {400000, 600000}

\* round(price / land_area, 2), to the whole dollar
PricePerSqm(sale_price, land_area_sqm) ==
    IF sale_price # 0 /\ land_area_sqm # 0
    THEN Some(RoundHalfEven(sale_price, land_area_sqm)) ELSE None

StatsSales(today) ==
    {PropertySale(IF p = 600000 THEN "house" ELSE "unit", Some(500), Some(0), p,
                  PricePerSqm(p, 500), today - n) :
        p \in StatsPrices, n \in StatsDaysAgo}

MaxStatsSales == 2

\* the lists of sales given on one day
StatsInputs(today) ==
    [today : {today}, sales : UNION {[1..k -> StatsSales(today)] : k \in 0..MaxStatsSales}]

InitStats ==
    /\ Idle
    /\ zc_in = <<>>
    /\ zc_out = None
    /\ pot_in = NoPotentialInput
    /\ pot_out = None
    /\ \E t \in StatsTodays : stats_in \in StatsInputs(t)
    /\ stats_out = None
    /\ cmp_in = NoComparablesInput
    /\ cmp_out = None
    /\ GatewayIdle

\* _calculate_stats, lines 232-295
CalculateStatistics ==
    /\ stats_out = None
    /\ stats_out' = Some(CalculateStats(stats_in.sales, stats_in.today))
    /\ UNCHANGED <<stats_in, cmp_in, cmp_out, mainVars, zoneVars, engineVars, gatewayVars>>

NextStats == CalculateStatistics

SpecStats == InitStats /\ [][NextStats]_vars

-----------------------------------------------------------------------------
(* Comparable sales *)

ComparableTodays == {ToOrdinal(2026, 3, 15)}

ComparableRequests ==
    {ComparableSalesRequest(15200000, a, t, 1000, m, l) :
        a \in {None, Some(600)}, t \in {None, Some("house")},
        m \in {12, 24}, l \in {2, 10, 50}}

ComparablePrices == {0, 500000}

\* every kind of sale: of the type asked for or not, of the same area or
\* not, at the target, within the radius, beyond it or without lat/lon, of
\* the last 90 days, of the last year or older
SaleKinds(today) ==
    {PropertySale(t, Some(a), d, p, PricePerSqm(p, a), today - n) :
        t \in {"house", "unit"}, a \in {200, 600},
        d \in {None, Some(0), Some(500), Some(3000)},
        p \in ComparablePrices, n \in {30, 200, 400}}

\* the sales that fill a longer list
FillKinds(today) ==
    {PropertySale("house", Some(600), Some(d), p, PricePerSqm(p, 600), today - n) :
        <<p, n, d>> \in {<<0, 100, 3000>>, <<650000, 300, 500>>}}

CorpusSizes == {1, 2, 10, 11}

\* a first sale of any kind and fill sales after it
Corpora(today) ==
    {<<>>} \cup
    {[i \in 1..n |-> IF i = 1 THEN first ELSE fill] :
        first \in SaleKinds(today), fill \in FillKinds(today), n \in CorpusSizes}

\* the requests made on one day and the sales generated for them
ComparableInputs(today) ==
    [today : {today}, request : ComparableRequests, generated : Corpora(today)]

InitComparables ==
    /\ Idle
    /\ zc_in = <<>>
    /\ zc_out = None
    /\ pot_in = NoPotentialInput
    /\ pot_out = None
    /\ stats_in = NoStatsInput
    /\ stats_out = None
    /\ \E t \in ComparableTodays : cmp_in \in ComparableInputs(t)
    /\ cmp_out = None
    /\ GatewayIdle

\* get_comparable_sales, lines 296-363
ComparableSales ==
    /\ cmp_out = None
    /\ GatewayIdle
    /\ cmp_out' = Some(GetComparableSales(cmp_in.request, cmp_in.generated, cmp_in.today))
    /\ UNCHANGED <<cmp_in, stats_in, stats_out, mainVars, zoneVars, engineVars, gatewayVars>>

NextComparables == ComparableSales

SpecComparables == InitComparables /\ [][NextComparables]_vars
-----------------------------------------------------------------------------
(* Requests through the connector's cache *)

\* the number of external calls in progress at once
MaxCalls == 2

\* the clock runs in steps of ClockStep minutes up to MaxMinutes
ClockStep == 5

MaxMinutes == 20

\* response.json()
GatewayData == {"d1", "d2"}

\* client.get raises (timeout, connection), raise_for_status raises,
\* response.json() raises
GatewayFailures == {"timeout", "http_error", "invalid_json"}

\* the number of external calls in progress
TotalCalls(calls) ==
    LET RECURSIVE Total(_)
        Total(keys) == IF keys = {} THEN 0
                       ELSE LET k == CHOOSE x \in keys : TRUE
                            IN  calls[k] + Total(keys \ {k})
    IN  Total(DOMAIN calls)

InitGateway ==
    /\ Idle
    /\ zc_in = <<>>
    /\ zc_out = None
    /\ pot_in = NoPotentialInput
    /\ pot_out = None
    /\ SalesIdle
    /\ GatewayIdle

\* _request, lines 40-50: from the entry to the return of the cached data or
\* to the await of client.get
GatewayRequest ==
    /\ \E r \in GatewayRequests :
          LET cache_key == CacheKey(r[1], r[2])
          IN  IF CacheHit(gw_cache, cache_key, gw_now)
              THEN /\ gw_last' = GatewayEvent("hit", cache_key,
                                              Some(gw_cache[cache_key].data), gw_cache)
                   /\ UNCHANGED gw_calls
              ELSE /\ TotalCalls(gw_calls) < MaxCalls
                   /\ gw_calls' = [gw_calls EXCEPT ![cache_key] = @ + 1]
                   /\ gw_last' = GatewayEvent("call", cache_key, None, gw_cache)
    /\ UNCHANGED <<gw_now, gw_cache, mainVars, zoneVars, engineVars, salesVars>>

\* _request, lines 50-57: client.get has answered or raised
GatewayResponse ==
    /\ \E cache_key \in GatewayKeys :
          /\ gw_calls[cache_key] > 0
          /\ gw_calls' = [gw_calls EXCEPT ![cache_key] = @ - 1]
          /\ \/ \E data \in GatewayData :
                   /\ gw_cache' = CacheSet(gw_cache, cache_key, CacheEntry(data, gw_now))
                   /\ gw_last' = GatewayEvent("stored", cache_key, Some(data), gw_cache)
             \/ \E failure \in GatewayFailures :
                   /\ gw_cache' = gw_cache
                   /\ gw_last' = GatewayEvent("failed", cache_key, None, gw_cache)
    /\ UNCHANGED <<gw_now, mainVars, zoneVars, engineVars, salesVars>>

\* time passes
GatewayTick ==
    /\ gw_now + ClockStep <= MaxMinutes
    /\ gw_now' = gw_now + ClockStep
    /\ UNCHANGED <<gw_cache, gw_calls, gw_last, mainVars, zoneVars, engineVars, salesVars>>

NextGateway == GatewayRequest \/ GatewayResponse \/ GatewayTick

SpecGateway == InitGateway /\ [][NextGateway]_vars

-----------------------------------------------------------------------------
(* Properties of a request *)

\* analyze_property has returned to the request in progress, or raised
AnalysisEnded ==
    pc = "done" /\ req.op \in {"analyze", "service_analyze"} /\ resp.status # "422"

\* get_development_controls has returned to the request in progress
ControlsReturned ==
    pc = "done" /\ req.op \in {"controls", "analyze", "service_analyze"} /\ resp.status = "ok"

\* C1: whatever the layer services answer to the queries of an analysis
\* (timeout, HTTP error, error payload, no features, features), in every
\* jurisdiction, analyze_property returns a complete PropertyAnalysis: zoning,
\* controls, overlays, potential, confidence_score and limitations are all
\* there, and no failure leaves the analysis as an exception.
C1_AnalysisAlwaysComplete ==
    AnalysisEnded =>
        /\ resp.status = "ok"
        /\ resp.body.zoning.zone_category \in ZoneCategory
        /\ resp.body.zoning.zone_code # <<>>
        /\ DOMAIN resp.body.development_controls = DOMAIN EmptyControls
        /\ resp.body.overlays.total_overlays
              = Len(resp.body.overlays.hazards) + Len(resp.body.overlays.heritage)
        /\ DOMAIN resp.body.development_potential = DOMAIN NoPotential
        /\ resp.body.confidence_score \in {60, 85}
        /\ Len(resp.body.limitations) >= 3

\* an NSW analysis whose seven layers all gave nothing has returned
C1_Witness ==
    /\ AnalysisEnded
    /\ req.op = "service_analyze"
    /\ resp.status = "ok"
    /\ Len(locals.queries) = 7
    /\ resp.body.zoning = NoZoning
    /\ resp.body.development_controls.height_limit = None
    /\ resp.body.development_controls.fsr = None
    /\ resp.body.overlays.total_overlays = 0
    /\ resp.body.confidence_score = 85

\* C2: in every jurisdiction the zoning resolver answers a zoning request
\* with a ZoningInfo, never with an absent result, and a result that names no
\* zone is the sentinel: zone_code "Unknown" with category special_purpose.
C2_ZoningNeverAbsent ==
    (pc = "done" /\ req.op = "zoning" /\ resp.status # "400") =>
        /\ locals.zoning # None
        /\ resp.status = "ok"
        /\ resp.body.zone_code = UnknownCode => resp.body.zone_category = "special_purpose"

\* the jurisdiction code of the request names no state
InvalidJurisdiction(r) ==
    r.state # None /\ StateOf(StrUpper(Val(r.state))) = None

\* C3: on every entry point a request with an invalid jurisdiction code or
\* with out-of-range coordinates is rejected, and no layer is ever queried
\* for it.
C3_InvalidRejectedBeforeQuery ==
    (req.op \in ApiOps /\ (InvalidJurisdiction(req) \/ ~InRange(req.lat, req.lon))) =>
        /\ locals.queries = <<>>
        /\ pc = "done" => resp.status \in {"400", "422"}

\* C5: in every jurisdiction, when get_development_controls has returned and
\* the zone's category has a default, the height and the FSR control are both
\* there; one that did not come from a layer carries the category's default
\* value and the default note.
C5_DefaultsFillMissingControls ==
    ControlsReturned =>
        LET category == GetZoneCategory(ControlsZoneCode(req, Cur))
            c        == locals.controls
        IN  /\ category \in DOMAIN HeightDefaults =>
                /\ IsSome(c.height_limit)
                /\ Val(c.height_limit).notes = Some(DefaultNote) =>
                      Val(c.height_limit).max_value = Some(HeightDefaults[category])
            /\ category \in DOMAIN FsrDefaults =>
                /\ IsSome(c.fsr)
                /\ Val(c.fsr).notes = Some(DefaultNote) =>
                      Val(c.fsr).max_value = Some(FsrDefaults[category])

\* C6: after get_development_controls, estimated_gfa is lot_area * fsr_max
\* when a positive lot area and an FSR control are both present, for every
\* FSR value, 0 included, and is absent when either is missing.
C6_EstimatedGfa ==
    ControlsReturned =>
        LET c   == locals.controls
            lot == ServiceLotArea(req)
        IN  IF IsSome(lot) /\ Val(lot) > 0 /\ IsSome(c.fsr)
            THEN c.estimated_gfa = Some(Mul(Val(lot), Val(Val(c.fsr).max_value)))
            ELSE c.estimated_gfa = None

\* C7: after get_development_controls, estimated_storeys is
\* floor(height_max / 3.2) when a height control is known and absent when
\* none is known.
C7_EstimatedStoreys ==
    ControlsReturned =>
        LET c == locals.controls
        IN  IF IsSome(c.height_limit)
            THEN c.estimated_storeys = Some(Val(Val(c.height_limit).max_value) \div 32)
            ELSE c.estimated_storeys = None

-----------------------------------------------------------------------------
(* Properties of the development potential engine *)

\* the engine has computed the potential of pot_in
PotentialComputed == pot_out # None /\ pot_in.include_scenarios

\* C8: every SubdivisionPotential the engine produces, whatever the zoning,
\* the controls and the lot area, an unknown lot area and the path without
\* scenarios included, has can_subdivide exactly when potential_lots >= 2.
C8_SubdivisionIff ==
    pot_out # None =>
        (Val(pot_out).subdivision.can_subdivide
            <=> Val(pot_out).subdivision.potential_lots >= 2)

\* a lot of 1000 sqm in a zone with a minimum of 450 sqm can be cut in two
C8_Witness ==
    /\ PotentialComputed
    /\ pot_in.lot_area_sqm = Some(10000)
    /\ Val(pot_out).subdivision.min_lot_size = Some(4500)
    /\ Val(pot_out).subdivision.can_subdivide
    /\ Val(pot_out).subdivision.potential_lots = 2

\* C9: whenever the lot area is known, the reported potential_lots is
\* floor(lot_area / min_lot_size), also when that quotient is 0 or 1.
C9_PotentialLotsIsQuotient ==
    (PotentialComputed /\ IsSome(pot_in.lot_area_sqm)) =>
        Val(pot_out).subdivision.potential_lots
            = Val(pot_in.lot_area_sqm) \div MinLotSize(pot_in.zoning, pot_in.controls)

\* the scenarios the rule set gives a zone category
ScenariosFollowCategory(category, scenarios) ==
    IF category = "residential"
    THEN /\ Len(scenarios) >= 1
         /\ scenarios[1].scenario_name = "Single Dwelling House"
         /\ scenarios[1].feasibility_rating = "high"
    ELSE IF category = "commercial"
    THEN /\ Len(scenarios) = 1
         /\ scenarios[1].scenario_name = "Commercial Development"
         /\ scenarios[1].feasibility_rating = "medium"
    ELSE IF category = "mixed_use"
    THEN /\ Len(scenarios) = 1
         /\ scenarios[1].scenario_name = "Mixed Use Development"
    ELSE scenarios = <<>>

\* C10 as stated: the scenarios follow the zone category on every call of
\* the engine, whether or not a lot area is supplied.
C10_ScenariosByCategoryAlways ==
    PotentialComputed =>
        ScenariosFollowCategory(pot_in.zoning.zone_category, Val(pot_out).scenarios)

\* C10 amended: when a non-zero lot area is supplied the scenarios follow the
\* zone category (residential: Single Dwelling first, rated high; commercial:
\* exactly one Commercial Development rated medium; mixed use: exactly one
\* Mixed Use Development; any other category: none), and when no lot area is
\* supplied, or a lot area of 0, there is no scenario in any category.
C10_ScenariosByCategoryWithLotArea ==
    PotentialComputed =>
        IF TruthyNum(pot_in.lot_area_sqm)
        THEN ScenariosFollowCategory(pot_in.zoning.zone_category, Val(pot_out).scenarios)
        ELSE Val(pot_out).scenarios = <<>>

\* a residential zone without a lot area has no scenario, and one with a lot
\* area has its Single Dwelling
C10_Witness ==
    /\ PotentialComputed
    /\ pot_in.zoning.zone_category = "residential"
    /\ \/ pot_in.lot_area_sqm = None /\ Val(pot_out).scenarios = <<>>
       \/ /\ pot_in.lot_area_sqm = Some(6500)
          /\ Len(Val(pot_out).scenarios) = 2

-----------------------------------------------------------------------------
(* Scenario rules, recommendation and confidence *)

\* the places of the scenarios of that name in a list
NamedAt(scenarios, sname) ==
    {i \in 1..Len(scenarios) : scenarios[i].scenario_name = sname}

\* a low-density residential code
LowDensityCode(zone_code) ==
    Contains(<<"R","2">>, zone_code) \/ Contains(<<"L","D","R">>, zone_code)

\* C11: for a residential zone with a known lot area, a Dual Occupancy
\* scenario is emitted exactly when lot_area >= 600, rated high when
\* lot_area >= 800 and medium otherwise; for a low-density residential code
\* and a lot below 600 sqm (500, say) the list has exactly one entry. A lot
\* area of 0 is no lot area to the engine (line 983), so the one-entry case
\* is the case of a lot area above 0.
C11_DualOccupancyRule ==
    (/\ PotentialComputed
     /\ pot_in.zoning.zone_category = "residential"
     /\ IsSome(pot_in.lot_area_sqm)) =>
        LET lot_area  == Val(pot_in.lot_area_sqm)
            scenarios == Val(pot_out).scenarios
            dual      == NamedAt(scenarios, "Dual Occupancy")
        IN  /\ (dual # {}) <=> (lot_area >= 6000)
            /\ \A i \in dual :
                  scenarios[i].feasibility_rating
                      = IF lot_area >= 8000 THEN "high" ELSE "medium"
            /\ Cardinality(dual) <= 1
            /\ (LowDensityCode(pot_in.zoning.zone_code) /\ lot_area > 0 /\ lot_area < 6000)
                  => Len(scenarios) = 1

\* an R2 lot of 500 sqm has the one scenario, and one of 800 sqm a Dual
\* Occupancy rated high
C11_Witness ==
    /\ PotentialComputed
    /\ pot_in.zoning.zone_code = <<"R","2">>
    /\ \/ pot_in.lot_area_sqm = Some(5000) /\ Len(Val(pot_out).scenarios) = 1
       \/ /\ pot_in.lot_area_sqm = Some(8000)
          /\ Len(Val(pot_out).scenarios) = 2
          /\ Val(pot_out).scenarios[2].scenario_name = "Dual Occupancy"
          /\ Val(pot_out).scenarios[2].feasibility_rating = "high"

\* the analysis of an R2 point with a lot of 650 sqm, a height limit of 9 m
\* and an FSR of 0.5 has returned
EndToEndCase ==
    /\ pc = "done"
    /\ req.op = "service_analyze"
    /\ resp.status = "ok"
    /\ req.include_scenarios
    /\ req.lot_area = Some(6500)
    /\ resp.body.zoning.zone_code = <<"R","2">>
    /\ IsSome(resp.body.development_controls.height_limit)
    /\ Val(resp.body.development_controls.height_limit).max_value = Some(90)
    /\ IsSome(resp.body.development_controls.fsr)
    /\ Val(resp.body.development_controls.fsr).max_value = Some(5)

\* the minimum lot size, the layer's or the zone's default, is above half of
\* the lot of 650 sqm
MinLotAboveHalf ==
    2 * MinLotSize(resp.body.zoning, resp.body.development_controls) > 6500

\* the end-to-end result with the first scenario under the given name
EndToEndResult(first_name) ==
    LET scenarios == resp.body.development_potential.scenarios
    IN  /\ resp.body.development_controls.estimated_gfa = Some(3250)
        /\ resp.body.development_controls.estimated_storeys = Some(2)
        /\ Len(scenarios) = 2
        /\ scenarios[1].scenario_name = first_name
        /\ scenarios[1].feasibility_rating = "high"
        /\ scenarios[2].scenario_name = "Dual Occupancy"
        /\ scenarios[2].feasibility_rating = "medium"
        /\ ~resp.body.development_potential.subdivision.can_subdivide

\* C12 as stated: end to end, zone R2 with lot_area 650, height 9 m and FSR
\* 0.5 gives estimated_gfa 325, estimated_storeys 2, the scenarios "Single
\* Dwelling Home" (high) then "Dual Occupancy" (medium) and nothing else, and
\* can_subdivide false.
C12_EndToEndSingleDwellingHome == EndToEndCase => EndToEndResult("Single Dwelling Home")

\* C12 amended: the same end-to-end result, the first scenario being named
\* "Single Dwelling House", when the minimum lot size in force (the lot size
\* layer's, or the R2 default of 450 sqm without one) is above 325 sqm.
C12_EndToEndSingleDwellingHouse ==
    (EndToEndCase /\ MinLotAboveHalf) => EndToEndResult("Single Dwelling House")

\* the end-to-end case has happened with the default minimum lot size
C12_Witness ==
    /\ EndToEndCase
    /\ Len(locals.queries) = 7
    /\ resp.body.development_controls.lot_size = None
    /\ resp.body.development_potential.subdivision.min_lot_size = Some(4500)

\* C13: in every DevelopmentPotential, recommended_scenario is the name of
\* the first scenario of the list rated "high", and is none exactly when no
\* scenario of the list is rated "high".
C13_RecommendedIsFirstHigh ==
    pot_out # None =>
        LET scenarios == Val(pot_out).scenarios
            rec       == Val(pot_out).recommended_scenario
            high      == {i \in 1..Len(scenarios) : scenarios[i].feasibility_rating = "high"}
        IN  /\ (rec = None) <=> (high = {})
            /\ high # {} =>
                  \E i \in high :
                      /\ \A j \in high : i <= j
                      /\ rec = Some(scenarios[i].scenario_name)

\* a recommendation has been made from a list of two scenarios, and none
\* from a list without a "high"
C13_Witness ==
    /\ PotentialComputed
    /\ \/ /\ Len(Val(pot_out).scenarios) = 2
          /\ Val(pot_out).recommended_scenario = Some("Single Dwelling House")
       \/ /\ Len(Val(pot_out).scenarios) = 1
          /\ Val(pot_out).recommended_scenario = None

\* C20: every PropertyAnalysis has confidence_score 0.85 for NSW and QLD and
\* 0.6 for every other jurisdiction, whatever the layers answered, and its
\* limitations are the three standard disclaimers, followed by the
\* jurisdiction's own exactly when the confidence_score is 0.6.
C20_ConfidenceByJurisdiction ==
    (AnalysisEnded /\ resp.status = "ok") =>
        LET state == resp.body.location.state
            lims  == resp.body.limitations
        IN  /\ resp.body.confidence_score = IF state \in {"NSW", "QLD"} THEN 85 ELSE 60
            /\ Len(lims) \in {3, 4}
            /\ SubSeq(lims, 1, 3) =
                  <<"This analysis is for informational purposes only",
                    "Always verify with local council planning department",
                    "Development controls may vary - check specific LEP/planning scheme">>
            /\ (Len(lims) = 4) <=> (resp.body.confidence_score = 60)
            /\ Len(lims) = 4 =>
                  lims[4] = <<"Limited data available for ", state,
                              " - manual verification recommended">>

\* an analysis for Victoria has returned with the low confidence and its
\* fourth limitation
C20_Witness ==
    /\ AnalysisEnded
    /\ resp.status = "ok"
    /\ resp.body.location.state = "VIC"
    /\ resp.body.confidence_score = 60
    /\ Len(resp.body.limitations) = 4

-----------------------------------------------------------------------------
(* Sales statistics *)

StatsComputed == stats_out # None /\ stats_in.sales # <<>>

DigitOf(c) == CHOOSE n \in 0..9 : DigitChar(n) = c

\* the months since year 0 of a "YYYY-MM" label
MonthNumber(label) ==
    (DigitOf(label[1]) * 1000 + DigitOf(label[2]) * 100 + DigitOf(label[3]) * 10
        + DigitOf(label[4])) * 12
    + DigitOf(label[6]) * 10 + DigitOf(label[7])

\* C17: for every non-empty list of sales and every today, the monthly
\* volume series has exactly 12 entries whose labels are 12 consecutive
\* calendar months, oldest first, ending with today's month: no month is
\* repeated or skipped.
C17_TwelveConsecutiveMonths ==
    StatsComputed =>
        LET volumes == Val(Val(stats_out).monthly_volumes)
        IN  /\ Len(volumes) = 12
            /\ \A n \in 1..11 :
                  MonthNumber(volumes[n + 1].month) = MonthNumber(volumes[n].month) + 1
            /\ MonthNumber(volumes[12].month)
                  = YearOf(stats_in.today) * 12 + MonthOf(stats_in.today)

\* C18: for every list of sales and every today, the counts of the monthly
\* volume series sum to at most total_sales: no sale is counted in two
\* monthly buckets.
C18_VolumesSumWithinTotal ==
    StatsComputed =>
        LET volumes == Val(Val(stats_out).monthly_volumes)
        IN  SumSeq([n \in 1..Len(volumes) |-> volumes[n].count]) <= Val(stats_out).total_sales

\* C19: price_change_percent is (median of the sales of the last 12 months
\* - median of the older sales) / median of the older sales x 100, and is
\* unset exactly when one of the two subsets is empty.
C19_PriceChangeFromRecentMedian ==
    stats_out # None =>
        LET sales  == stats_in.sales
            places == 1..Len(sales)
            recent == Prices(SelectSales(sales, {k \in places :
                          sales[k].contract_date >= stats_in.today - 365}))
            older  == Prices(SelectSales(sales, {k \in places :
                          sales[k].contract_date < stats_in.today - 365}))
        IN  Val(stats_out).price_change_percent =
                IF recent = <<>> \/ older = <<>> THEN None
                ELSE Some(RoundHalfEven((Median(recent) - Median(older)) * 1000, Median(older)))

-----------------------------------------------------------------------------
(* Comparable sales *)

ComparablesReturned == cmp_out # None

\* C14: the similarity score of every comparable is within [0, 1], whatever
\* the type match, the land-area difference, the distance (beyond the
\* radius too) and the age of the sale (the x1.1 recency bonus on a perfect
\* match too).
C14_SimilarityWithinUnit ==
    ComparablesReturned =>
        \A k \in 1..Len(Val(cmp_out).comparables) :
            /\ Val(cmp_out).comparables[k].similarity_score >= 0
            /\ Val(cmp_out).comparables[k].similarity_score <= 100000

\* a perfect match of the last 90 days, whose product of 1.1 was cut to 1,
\* has been returned next to a sale beyond the radius, or the other way round
C14_Witness ==
    /\ ComparablesReturned
    /\ \E k \in 1..Len(Val(cmp_out).comparables) :
          /\ RawSimilarity(cmp_in.request, Val(cmp_out).comparables[k].sale, cmp_in.today) = 110000
          /\ Val(cmp_out).comparables[k].similarity_score = 100000
    /\ \E k \in 1..Len(Val(cmp_out).comparables) :
          /\ IsSome(Val(cmp_out).comparables[k].sale.distance)
          /\ Val(cmp_out).comparables[k].distance_m > cmp_in.request.radius_m

\* C15: whenever the response carries a valuation estimate,
\* estimated_value_low <= estimated_value_mid <= estimated_value_high, and
\* when there is no comparable the three values are unset.
C15_ValuationOrdered ==
    ComparablesReturned =>
        LET r == Val(cmp_out)
        IN  /\ (IsSome(r.estimated_value_low) \/ IsSome(r.estimated_value_mid)
                    \/ IsSome(r.estimated_value_high)) =>
                  /\ IsSome(r.estimated_value_low)
                  /\ IsSome(r.estimated_value_mid)
                  /\ IsSome(r.estimated_value_high)
                  /\ Val(r.estimated_value_low) <= Val(r.estimated_value_mid)
                  /\ Val(r.estimated_value_mid) <= Val(r.estimated_value_high)
            /\ r.comparables = <<>> =>
                  /\ r.estimated_value_low = None
                  /\ r.estimated_value_mid = None
                  /\ r.estimated_value_high = None

\* an estimate has been made from several comparables
C15_Witness ==
    /\ ComparablesReturned
    /\ Len(Val(cmp_out).comparables) >= 2
    /\ IsSome(Val(cmp_out).estimated_value_mid)
    /\ Val(Val(cmp_out).estimated_value_low) < Val(Val(cmp_out).estimated_value_mid)
    /\ Val(Val(cmp_out).estimated_value_mid) < Val(Val(cmp_out).estimated_value_high)

\* min(count / 10, 1.0) x 0.8 in thousandths
ConfidenceOfCount(count) == IF count >= 10 THEN 800 ELSE 80 * count

\* some selected comparable has a time-adjusted price other than 0
SomePriced ==
    \E k \in 1..Len(Val(cmp_out).comparables) :
        Val(cmp_out).comparables[k].time_adjusted_price # 0

-----------------------------------------------------------------------------
(* The analysis without scenarios, and the overlay summary *)

\* analyze_property has returned an analysis made with include_scenarios off
AnalysisWithoutScenarios ==
    AnalysisEnded /\ resp.status = "ok" /\ ~req.include_scenarios

\* the analysis of the same request and the same layer answers with
\* include_scenarios on
WithScenarios == FinishAnalysis([req EXCEPT !.include_scenarios = TRUE], Cur).resp.body

\* C21: an analysis made with include_scenarios off still has a
\* development_potential: an empty building envelope, can_subdivide false, no
\* scenarios and no recommended scenario; its zoning, controls and overlays
\* are the ones the same layer answers give with include_scenarios on.
C21_NoScenariosEmptyPotential ==
    AnalysisWithoutScenarios =>
        /\ resp.body.development_potential.building_envelope = EmptyEnvelope
        /\ resp.body.development_potential.subdivision.can_subdivide = FALSE
        /\ resp.body.development_potential.scenarios = <<>>
        /\ resp.body.development_potential.recommended_scenario = None
        /\ resp.body.zoning = WithScenarios.zoning
        /\ resp.body.development_controls = WithScenarios.development_controls
        /\ resp.body.overlays = WithScenarios.overlays

\* an analysis without scenarios of a lot whose analysis with scenarios has
\* scenarios and a building envelope
C21_Witness ==
    /\ AnalysisWithoutScenarios
    /\ WithScenarios.development_potential.scenarios # <<>>
    /\ WithScenarios.development_potential.building_envelope # EmptyEnvelope
    /\ resp.body.development_potential = NoPotential

\* get_overlays has returned to the request in progress
OverlaysReturned == IsSome(locals.overlays)

\* C22: in every overlay summary, has_critical_hazards is set exactly when
\* some hazard has level high or extreme, has_heritage_constraints exactly
\* when the heritage list is non-empty, and total_overlays is the number of
\* hazards, environmental overlays and heritage items together.
C22_SummaryFlagsMatchLists ==
    OverlaysReturned =>
        LET o == Val(locals.overlays)
        IN  /\ o.has_critical_hazards
                 <=> (\E i \in 1..Len(o.hazards) : o.hazards[i].level \in {"high", "extreme"})
            /\ o.has_heritage_constraints <=> o.heritage # <<>>
            /\ o.total_overlays = Len(o.hazards) + Len(o.environmental) + Len(o.heritage)
            /\ (pc = "done" /\ req.op = "overlays" /\ resp.status = "ok") => resp.body = o
            /\ (AnalysisEnded /\ resp.status = "ok") => resp.body.overlays = o

\* a summary with a flood hazard of level medium, a bushfire hazard of level
\* high and a heritage item
C22_Witness ==
    /\ OverlaysReturned
    /\ Len(Val(locals.overlays).hazards) = 2
    /\ Val(locals.overlays).hazards[1].level = "medium"
    /\ Val(locals.overlays).hazards[2].level = "high"
    /\ Val(locals.overlays).has_critical_hazards
    /\ Val(locals.overlays).has_heritage_constraints
    /\ Val(locals.overlays).total_overlays = 3

-----------------------------------------------------------------------------
(* The ranking of the comparables *)

\* the sales the search gave for the request: the candidates of the ranking
Candidates ==
    GenerateMockResults(SalesSearchRequest(cmp_in.request, cmp_in.today),
                        cmp_in.generated, cmp_in.today).sales

\* the number of times a sale is in a list of sales
TimesIn(sale, sales) == Cardinality({k \in 1..Len(sales) : sales[k] = sale})

\* the sales of a list of comparables
SalesOf(comparables) == [k \in 1..Len(comparables) |-> comparables[k].sale]

\* the candidates the truncation left out
LeftOut(candidates, returned_sales) ==
    {k \in 1..Len(candidates) :
        TimesIn(candidates[k], returned_sales) < TimesIn(candidates[k], candidates)}

\* C23: the returned comparables are ordered by similarity_score, highest
\* first; there are at most `limit` of them (all the candidates when there
\* are no more than `limit`); and no candidate left out by the truncation
\* has a strictly higher score than a returned one.
C23_RankedAndTruncated ==
    cmp_out # None =>
        LET returned   == Val(cmp_out).comparables
            candidates == Candidates
            sales      == SalesOf(returned)
            lowest     == returned[Len(returned)].similarity_score
        IN  /\ \A i \in 1..(Len(returned) - 1) :
                  returned[i].similarity_score >= returned[i + 1].similarity_score
            /\ Len(returned) <= cmp_in.request.limit
            /\ Len(returned) = Min(Len(candidates), cmp_in.request.limit)
            /\ \A i \in 1..Len(returned) :
                  /\ TimesIn(sales[i], sales) <= TimesIn(sales[i], candidates)
                  /\ returned[i].similarity_score
                        = CalculateSimilarity(cmp_in.request, sales[i], cmp_in.today)
            /\ \A k \in LeftOut(candidates, sales) :
                  CalculateSimilarity(cmp_in.request, candidates[k], cmp_in.today) <= lowest

\* eleven candidates cut to ten: the one left out scores strictly less than
\* every returned one, and the search gave it first (it is the latest sale)
C23_Witness ==
    /\ cmp_out # None
    /\ Len(Val(cmp_out).comparables) = 10
    /\ Len(Candidates) = 11
    /\ LeftOut(Candidates, SalesOf(Val(cmp_out).comparables)) = {1}
    /\ CalculateSimilarity(cmp_in.request, Candidates[1], cmp_in.today)
          < Val(cmp_out).comparables[10].similarity_score

-----------------------------------------------------------------------------
(* The connector's cache *)

\* the age of the entry the cache has for a key
AgeOf(cache_key) == gw_now - gw_cache[cache_key].timestamp

\* C24: the cache is keyed by URL plus parameters and time-boxed. A request
\* issued while the entry of its key (the result of the last successful
\* external call for the key) is younger than the 15 minutes is answered
\* with the entry's data, with no external call; a request issued when the
\* entry is older causes an external call, and when that call succeeds its
\* result replaces the entry (and touches no other key); an external call
\* that fails leaves the cache as it is, and so does every request until its
\* call has succeeded.
C24_TimeBoxedCache ==
    [][gw_now' = gw_now =>
        LET e   == gw_last'
            key == e.key
        IN  /\ e.kind \in {"hit", "call"} =>
                  /\ gw_cache' = gw_cache
                  /\ (key \in DOMAIN gw_cache /\ AgeOf(key) < CACHE_DURATION) =>
                        /\ e.kind = "hit"
                        /\ e.data = Some(gw_cache[key].data)
                        /\ gw_calls' = gw_calls
                  /\ (key \notin DOMAIN gw_cache \/ AgeOf(key) > CACHE_DURATION) =>
                        /\ e.kind = "call"
                        /\ gw_calls' = [gw_calls EXCEPT ![key] = @ + 1]
            /\ e.kind = "stored" =>
                  /\ DOMAIN gw_cache' = DOMAIN gw_cache \cup {key}
                  /\ gw_cache'[key] = [data |-> Val(e.data), timestamp |-> gw_now]
                  /\ \A k \in DOMAIN gw_cache \ {key} : gw_cache'[k] = gw_cache[k]
            /\ e.kind = "failed" => gw_cache' = gw_cache
      ]_vars

\* an external call made for a key whose entry was 20 minutes old has
\* succeeded with other data, which is now the entry of the key
C24_Witness ==
    /\ gw_last.kind = "stored"
    /\ IsSome(gw_last.seen)
    /\ gw_now - Val(gw_last.seen).timestamp > CACHE_DURATION
    /\ Val(gw_last.seen).data # Val(gw_last.data)
    /\ gw_cache[gw_last.key] = [data |-> Val(gw_last.data), timestamp |-> gw_now]

-----------------------------------------------------------------------------
(* The order of the QLD zoning steps *)

\* the first of the features of an answer, alone
FirstOf(features) == IF features = <<>> THEN <<>> ELSE <<features[1]>>

\* _get_qld_zoning has been entered by the request in progress
QldZoningEntered == Len(locals.queries) >= 1 /\ locals.queries[1] = QLD_LGA_LAYER

\* the layer asked last
LastQueried == locals.queries[Len(locals.queries)]

\* the "Unknown" sentinel of _get_qld_zoning
QldSentinel(lga_name) ==
    Some(ZoningInfo(UnknownCode, "Zoning data not available", "special_purpose",
                    <<>>, lga_name, <<"Queensland Planning Framework">>))

\* C25: the QLD zoning steps run in a fixed order and stop at the first that
\* yields data. The LGA layer is asked first and once; the Brisbane scheme is
\* asked only right after it and only when the first LGA feature names
\* Brisbane; the land use layer is asked only when the Brisbane scheme was
\* not asked or gave no feature; the sentinel is returned only when the land
\* use layer gave no feature either. Of several features of one answer only
\* the first is used.
C25_QldFallbackOrder ==
    QldZoningEntered =>
        LET q     == locals.queries
            n     == Len(q)
            first == FirstOf(locals.features)
        IN  /\ \A i \in 2..n : q[i] # QLD_LGA_LAYER
            /\ \A i \in 1..n : q[i] = BCC_ZONING_LAYER =>
                  i = 2 /\ IsBrisbane(locals.lga_name)
            /\ \A i \in 1..n : q[i] = QLD_ZONING_LAYER =>
                  \/ i = 2 /\ ~IsBrisbane(locals.lga_name)
                  \/ i = 3 /\ q[2] = BCC_ZONING_LAYER
            /\ n = 1 =>
                  /\ locals.lga_name = QldLgaName(first)
                  /\ locals.zoning = None
                  /\ pc = IF IsBrisbane(QldLgaName(first)) THEN "qld_bcc" ELSE "qld_land_use"
            /\ LastQueried = BCC_ZONING_LAYER =>
                  IF locals.features = <<>>
                  THEN pc = "qld_land_use" /\ locals.zoning = None
                  ELSE /\ pc # "qld_land_use"
                       /\ locals.zoning = QldBccZoning(first, locals.lga_name)
            /\ LastQueried = QLD_ZONING_LAYER =>
                  /\ locals.zoning = QldLandUseZoning(first, locals.lga_name)
                  /\ locals.zoning = QldSentinel(locals.lga_name) <=> locals.features = <<>>
            /\ (n >= 3 /\ q[2] = BCC_ZONING_LAYER /\ q[3] # QLD_ZONING_LAYER) =>
                  Val(locals.zoning).source = <<"Brisbane City Council Planning Scheme">>

\* the Brisbane scheme gave two overlapping features and the zoning is that
\* of the first: the land use layer was not asked
C25_Witness ==
    /\ pc = "done"
    /\ req.op = "zoning"
    /\ locals.queries = <<QLD_LGA_LAYER, BCC_ZONING_LAYER>>
    /\ Len(locals.features) = 2
    /\ resp.status = "ok"
    /\ resp.body = Val(QldBccZoning(FirstOf(locals.features), locals.lga_name))
    /\ resp.body # Val(QldBccZoning(Tail(locals.features), locals.lga_name))

-----------------------------------------------------------------------------
(* The three NSW control layers *)

\* the number a layer's text gives once its unit is stripped: None when the
\* text is absent or empty or is no number
NumberOf(text, stripped) == IF TruthyStr(text) THEN ParseFloat(stripped) ELSE None

\* the numbers the three answers give
HeightNumber(features) ==
    IF features = <<>> THEN None
    ELSE LET text == OrStr(Attr(features, "MAX_B_H_M"), Attr(features, "MAX_B_H"))
         IN  NumberOf(text, Replace(Val(text), <<"m">>, <<>>))

FsrNumber(features) ==
    IF features = <<>> THEN None
    ELSE LET text == Attr(features, "FSR")
         IN  NumberOf(text, Replace(Val(text), <<":", "1">>, <<>>))

LotSizeNumber(features) ==
    IF features = <<>> THEN None
    ELSE LET text == Attr(features, "LOT_SIZE")
         IN  NumberOf(text, Replace(Replace(Val(text), <<"s", "q", "m">>, <<>>), <<",">>, <<>>))

\* the control is unset when the answer gives no number, and holds the
\* number when it gives one
MaxIs(control, number) ==
    IF number = None THEN control = None
    ELSE IsSome(control) /\ Val(control).max_value = number

MinIs(control, number) ==
    IF number = None THEN control = None
    ELSE IsSome(control) /\ Val(control).min_value = number

\* C26: in the NSW controls resolution each of height, FSR and minimum lot
\* size comes from its own layer's answer alone: a value that is absent or
\* is no number once 'm', ':1', 'sqm' and commas are stripped leaves that
\* control unset, and whatever one layer answers the resolution goes on to
\* the next layer, keeps the controls already resolved as they are, and ends
\* with the setbacks of the zone. (Coordinates out of range make the brief
\* analysis fail when its answer is built, after the controls.)
C26_NswControlsIndependent ==
    [][/\ pc = "nsw_height" =>
            /\ pc' = "nsw_fsr"
            /\ MaxIs(locals'.controls.height_limit, HeightNumber(locals'.features))
            /\ locals'.controls.fsr = None
            /\ locals'.controls.lot_size = None
       /\ pc = "nsw_fsr" =>
            /\ pc' = "nsw_lot"
            /\ MaxIs(locals'.controls.fsr, FsrNumber(locals'.features))
            /\ locals'.controls.height_limit = locals.controls.height_limit
            /\ locals'.controls.lot_size = None
       /\ pc = "nsw_lot" =>
            /\ InRange(req.lat, req.lon) => resp'.status \notin {"raised", "500"}
            /\ MinIs(locals'.controls.lot_size, LotSizeNumber(locals'.features))
            /\ locals'.controls.height_limit = locals.controls.height_limit
            /\ locals'.controls.fsr = locals.controls.fsr
            /\ locals'.controls.setbacks
                  = GetDefaultSetbacks(ControlsZoneCode(req, [zoning |-> locals.zoning]))
      ]_vars

\* the FSR layer gave a text that is no number after a height that is one:
\* the FSR is unset, the height is kept and the lot size layer is asked next
C26_Witness ==
    /\ pc = "nsw_lot"
    /\ locals.features # <<>>
    /\ TruthyStr(Attr(locals.features, "FSR"))
    /\ FsrNumber(locals.features) = None
    /\ locals.controls.fsr = None
    /\ IsSome(locals.controls.height_limit)

-----------------------------------------------------------------------------
(* Termination and the number of queries *)

\* analyze_property is running for the request in progress
AnalysisRunning ==
    req.op \in {"analyze", "service_analyze"} /\ pc \notin {"idle", "done"}

\* no layer is in the list of the layers queried twice
EachLayerOnce ==
    \A i, j \in 1..Len(locals.queries) : i # j => locals.queries[i] # locals.queries[j]

\* C27: within one request no layer is queried twice (a query that failed
\* or gave nothing is not issued again), and an analysis whose queries are
\* each answered in the end (with features, with none, with an error or by
\* the timeout) comes to its end.
C27_TerminatesWithoutRetry ==
    /\ [](EachLayerOnce /\ Len(locals.queries) <= 7)
    /\ AnalysisRunning ~> AnalysisEnded

\* an NSW analysis has ended after seven queries, the last of which gave
\* no features
C27_Witness ==
    /\ AnalysisEnded
    /\ Len(locals.queries) = 7
    /\ locals.features = <<>>
    /\ EachLayerOnce

-----------------------------------------------------------------------------
(* The two gross floor areas of an analysis *)

\* C28: in an analysis with scenarios the building envelope's max_gfa_sqm is
\* the controls' estimated_gfa: whatever the FSR control (its max value 0 or
\* unset included) and the lot area, the two are both unset or both set and
\* equal.
C28_EnvelopeGfaIsEstimatedGfa ==
    (AnalysisEnded /\ resp.status = "ok" /\ req.include_scenarios) =>
        resp.body.development_potential.building_envelope.max_gfa_sqm
            = resp.body.development_controls.estimated_gfa

-----------------------------------------------------------------------------
(* The valuation fields of a comparable sales response *)

\* how many of the four valuation fields are set
ValuationFieldsSet ==
    Len(Val(cmp_out).estimated_value_low) + Len(Val(cmp_out).estimated_value_mid)
        + Len(Val(cmp_out).estimated_value_high) + Len(Val(cmp_out).confidence)

-----------------------------------------------------------------------------
(* The counts of the statistics *)

\* the sum of the counts of a dict of counts
SumOfCounts(counts) ==
    LET RECURSIVE Total(_)
        Total(names) == IF names = {} THEN 0
                        ELSE LET n == CHOOSE x \in names : TRUE
                             IN  counts[n] + Total(names \ {n})
    IN  Total(DOMAIN counts)

\* C30: in the statistics of every list of sales, sales_last_3_months <=
\* sales_last_12_months <= total_sales; every sale is either of the last 12
\* months (counted in sales_last_12_months) or older (the sales whose median
\* is median_price_12_months_ago), never both and never neither; and the
\* counts of by_property_type sum to total_sales (no sale, no count).
C30_StatisticsCountsConsistent ==
    stats_out # None =>
        LET s      == Val(stats_out)
            sales  == stats_in.sales
            places == 1..Len(sales)
            recent == {k \in places : sales[k].contract_date >= stats_in.today - 365}
            older  == {k \in places : sales[k].contract_date < stats_in.today - 365}
        IN  /\ 0 <= s.sales_last_3_months
            /\ s.sales_last_3_months <= s.sales_last_12_months
            /\ s.sales_last_12_months <= s.total_sales
            /\ s.total_sales = Len(sales)
            /\ recent \cap older = {}
            /\ recent \cup older = places
            /\ s.sales_last_12_months = Cardinality(recent)
            /\ s.total_sales - s.sales_last_12_months = Cardinality(older)
            /\ IsSome(s.median_price_12_months_ago) <=> older # {}
            /\ IF IsSome(s.by_property_type)
               THEN SumOfCounts(Val(s.by_property_type)) = s.total_sales
               ELSE s.total_sales = 0

\* a house sold 365 days ago and a unit sold 366 days ago: none of the last
\* 3 months, one of the last 12, two in all, one count for each type
C30_Witness ==
    /\ stats_out # None
    /\ Val(stats_out).sales_last_3_months = 0
    /\ Val(stats_out).sales_last_12_months = 1
    /\ Val(stats_out).total_sales = 2
    /\ \E k \in 1..2 : stats_in.sales[k].contract_date = stats_in.today - 365
    /\ \E k \in 1..2 : stats_in.sales[k].contract_date = stats_in.today - 366
    /\ DOMAIN Val(Val(stats_out).by_property_type) = {"house", "unit"}

-----------------------------------------------------------------------------
(* The classifier applied to bounded inputs *)

MaxCodeLen == 3

ZoneAlphabet == {"R", "r", "2", "(", " ", "Z"}

SeqsUpTo(S, n) == UNION {[1..k -> S] : k \in 0..n}

\* Spellings of a table code that the classifier has to normalise
TableVariants(c) ==
    {c, StrLower(c), c \o <<"(","a",")">>, <<" ">> \o c \o <<"\t">>,
     StrLower(c) \o <<" ","(","x",")">>}

ZoneInputs ==
    SeqsUpTo(ZoneAlphabet, MaxCodeLen)
        \cup UNION {TableVariants(c) : c \in DOMAIN ZONE_CATEGORY_MAP}
        \cup {UnknownCode}

InitZone ==
    /\ Idle
    /\ zc_in \in ZoneInputs
    /\ zc_out = None
    /\ pot_in = NoPotentialInput
    /\ pot_out = None
    /\ SalesIdle
    /\ GatewayIdle

ClassifyZone ==
    /\ zc_out = None
    /\ zc_out' = Some(GetZoneCategory(zc_in))
    /\ UNCHANGED <<zc_in, mainVars, engineVars, salesVars, gatewayVars>>

NextZoneCode ==
    /\ zc_out # None
    /\ zc_in' \in ZoneInputs
    /\ zc_out' = None
    /\ UNCHANGED <<mainVars, engineVars, salesVars, gatewayVars>>

NextZone == ClassifyZone \/ NextZoneCode

SpecZone == InitZone /\ [][NextZone]_vars

-----------------------------------------------------------------------------
(* C4 *)

\* key is what s becomes when it is cut at the first "(", trimmed and
\* upper-cased, stated without the classifier's own helpers
IsNormalisedTo(s, key) ==
    \E n \in 0..Len(s) :
        /\ \A k \in 1..n : s[k] # "("
        /\ n = Len(s) \/ s[n + 1] = "("
        /\ \E i \in 1..(n + 1) : \E j \in (i - 1)..n :
              /\ \A k \in 1..(i - 1) : s[k] \in Whitespace
              /\ \A k \in (j + 1)..n : s[k] \in Whitespace
              /\ j >= i => (s[i] \notin Whitespace /\ s[j] \notin Whitespace)
              /\ Len(key) = j - i + 1
              /\ \A k \in 1..Len(key) :
                    \/ key[k] = s[i + k - 1] /\ \A m \in 1..26 : LowerLetters[m] # s[i + k - 1]
                    \/ \E m \in 1..26 : LowerLetters[m] = s[i + k - 1] /\ key[k] = UpperLetters[m]

\* C4: zone classification is total: whatever the code string, the result is
\* a category; a code that is a table code once cut at the first "(",
\* trimmed and upper-cased gets that code's category, and every other string,
\* the empty string and "Unknown" included, gets special_purpose.
C4_ZoneClassification ==
    IsSome(zc_out) =>
        /\ Val(zc_out) \in ZoneCategory
        /\ \A key \in DOMAIN ZONE_CATEGORY_MAP :
              IsNormalisedTo(zc_in, key) => Val(zc_out) = ZONE_CATEGORY_MAP[key]
        /\ (\A key \in DOMAIN ZONE_CATEGORY_MAP : ~IsNormalisedTo(zc_in, key))
              => Val(zc_out) = "special_purpose"
        /\ zc_in \in DOMAIN ZONE_CATEGORY_MAP => Val(zc_out) = ZONE_CATEGORY_MAP[zc_in]
        /\ zc_in \in {<<>>, UnknownCode} => Val(zc_out) = "special_purpose"

C4_Witness ==
    /\ zc_in = <<"r","2"," ","(","x",")">>
    /\ zc_out = Some("residential")

====
